---- MODULE Spec2Model ----
(***************************************************************************)
(* Qbitcoin consensus and state engine: the chain manager (add_block),     *)
(* the block store, the account ledger (process_block), the mempool        *)
(* (add_transaction, remove_confirmed_transactions) and the miner thread.  *)
(*                                                                         *)
(* Amounts are integers in tenths of a QBIT (2.5 QBIT = 25), difficulties  *)
(* are integers in units of 10^-8 (DIFFICULTY_PRECISION), timestamps are   *)
(* seconds.  SHA3-256 and Falcon-512 are oracles: a hash is a number that  *)
(* identifies the content, a signature is the name of the key under which  *)
(* it verifies.                                                            *)
(***************************************************************************)
EXTENDS Integers, Sequences, FiniteSets, TLC

VARIABLES
    now,               \* wall clock, int(time.time())
    block_files,       \* ChainManager: blk<n>.dat, file number -> sequence of stored records
    block_index,       \* ChainManager.block_index: hash -> [file, offset, size]
    height_index,      \* ChainManager.height_index: height -> hash
    current_height,    \* Blockchain.current_height
    best_hash,         \* Blockchain.best_hash (NoHash when uninitialised)
    not_found_cache,   \* Blockchain.not_found_cache
    accounts,          \* AccountDatabase table accounts: address -> [balance, tx_count, pubkey_block]
    tx_blocks,         \* AccountDatabase table tx_blocks: set of <<address, block_num>>
    last_block,        \* AccountDatabase table last_block (NoBlock when empty)
    processed,         \* number of blocks add_block has handed to the ledger so far
    mempool,           \* Mempool.transactions: tx hash -> transaction as stored
    chain_pc,          \* position of the thread inside Blockchain.add_block (it holds the chain lock)
    chain_cur,         \* the block and the caller of the add_block in progress
    miner_pc,          \* position of the mining thread
    miner_tmpl,        \* the candidate block the miner is working on
    last,              \* the outcome of the last step (return values are observed here)
    peers,             \* P2PNetwork.peers: peer id -> the height the peer reported
    active_connections, \* P2PNetwork.active_connections: ids of the connected peers
    net,               \* messages sent and not yet handled, each with its receiver
    sync_state,        \* P2PNetwork.sync_state: syncing, sync_peer, sync_height
    handling,          \* the block P2PNetwork._handle_blocks has handed to add_block (None if none)
    syncing,           \* SyncState.syncing
    mode,              \* SyncState.mode
    target_height,     \* SyncState.target_height
    initial_height,    \* SyncState.initial_height
    sync_current_height, \* SyncState.current_height
    last_progress_time, \* SyncState.last_progress_time
    headers_in_flight, \* SyncState.headers_in_flight: heights requested and not received
    headers_map,       \* SyncState.headers_map: height -> header
    verified_headers,  \* SyncState.verified_headers
    blocks_queue,      \* SyncState.blocks_queue: priority queue of [height, hash]
    blocks_in_flight,  \* SyncState.blocks_in_flight: hashes requested and not received
    downloaded_blocks, \* SyncState.downloaded_blocks
    blocks_processing_queue, \* SyncState.blocks_processing_queue: deque of block data
    blocks_downloaded, \* SyncState.blocks_downloaded
    stop_event,        \* SyncState.stop_event
    headers_pc,        \* position of _headers_sync_thread
    blocks_pc,         \* position of _blocks_sync_thread
    processing_pc,     \* position of _block_processing_thread
    connections,       \* the PeerConnection objects that are connected: peer id -> [is_outbound]
    connecting,        \* peer ids whose connect_to_peer call has passed its checks and is opening the socket
    connection_failures, \* PeerInfo.connection_failures: peer id -> failed attempts
    banned_ips,        \* P2PNetwork.banned_ips: ip -> ban expiry time
    failed_in_a_row,   \* history: peer id -> failed connect_to_peer calls since the last successful one
    mining,            \* BlockMiner.mining
    pow_solver,        \* the ProofOfWork object and the frame of its mine() call
    mined_block,       \* the Block object that Block.mine and Block.validate work on
    hashes_after_stop, \* nonce attempts of the miner's solver since stop_mining was called
    lock_owner,        \* the thread that holds P2PNetwork.lock (an RLock)
    send_lock,         \* the thread that holds PeerConnection.send_lock of the connection watched
    peer_connected,    \* PeerConnection.connected of the connection watched
    thread_pc          \* position of the threads that take these locks, and of a second mining thread

p2pVars == <<peers, active_connections, connections, net, sync_state, handling>>

lockVars == <<lock_owner, send_lock, peer_connected, thread_pc>>

(* the state of the network besides the peer table and the connections,    *)
(* its locks included                                                      *)
connVars == <<connecting, connection_failures, banned_ips, failed_in_a_row, lockVars>>

powVars == <<mining, pow_solver, mined_block, hashes_after_stop>>

syncVars == <<syncing, mode, target_height, initial_height, sync_current_height,
              last_progress_time, headers_in_flight, headers_map, verified_headers,
              blocks_queue, blocks_in_flight, downloaded_blocks, blocks_processing_queue,
              blocks_downloaded, stop_event, headers_pc, blocks_pc, processing_pc>>

vars == <<now, block_files, block_index, height_index, current_height, best_hash,
          not_found_cache, accounts, tx_blocks, last_block, processed, mempool,
          chain_pc, chain_cur, miner_pc, miner_tmpl, last, p2pVars, syncVars,
          connVars, powVars>>

chainVars  == <<block_files, block_index, height_index, current_height, best_hash>>
ledgerVars == <<accounts, tx_blocks, last_block>>

----------------------------------------------------------------------------
(* Program constants (src/core/config.py and friends).                     *)

MAX_SUPPLY == 300000000
INITIAL_SUPPLY == 200000000
BLOCK_TIME == 60
DIFFICULTY_ADJUSTMENT_BLOCKS == 3
DIFFICULTY_ADJUSTMENT_TIMESPAN == BLOCK_TIME * DIFFICULTY_ADJUSTMENT_BLOCKS
INITIAL_DIFFICULTY == 100000
MINIMUM_DIFFICULTY == 100000
INITIAL_BLOCK_REWARD == 25
HALVING_INTERVAL == 1051200
MAX_HALVINGS == 64
FUTURE_LIMIT == 7200
NOT_FOUND_CACHE_MAX == 100

(* Bounds of the model.                                                    *)
MaxBlocks == 2          \* blocks handed to the ledger after genesis
MaxTicks == 2           \* clock ticks
MaxMinerBlocks == 3     \* blocks handed to the ledger after genesis, mining node
MaxMinerTicks == 3      \* clock ticks, mining node
MaxBlockTxs == 1        \* transactions a block template takes (MAX_BLOCK_SIZE / tx size)
MaxFileBlocks == 2      \* records that fit one blk file (MAX_BLOCK_FILE_SIZE / record size)
MempoolMaxTxs == 2      \* MEMPOOL_MAX_SIZE in units of the size of a one-input, one-output transaction

Epoch == 1000           \* the clock's first value
TickSeconds == 45       \* seconds per clock tick

NoHash == 0             \* "" / "0"*64: no block
NoBlock == -1           \* NULL in the ledger tables
NoKey == "none"         \* None for public_key / signature
NoRef == "absent"       \* the input has no prev_tx / output_index keys
EmptyRef == ""          \* prev_tx '' with output_index 0, as the codec reads it back

Addresses == {"Qtest", "Qbob", "Qminer"}

----------------------------------------------------------------------------
(* Transactions and blocks.                                                *)

Input(address, amount, prev_tx) ==
    [address |-> address, amount |-> amount, prev_tx |-> prev_tx]

Output(address, amount) == [address |-> address, amount |-> amount]

Tx(hash, inputs, outputs, fee, public_key, signature) ==
    [hash |-> hash, inputs |-> inputs, outputs |-> outputs, fee |-> fee,
     public_key |-> public_key, signature |-> signature]

(* The transactions the environment can submit.                            *)
(*  1, 2: two distinct signed spends of ("Qtest", 10)                      *)
(*  3   : a spend of Qtest's funds that carries no signature               *)
(*  4   : a signed spend of all but 15 of the genesis allocation, citing   *)
(*        the same previous output as 3                                    *)
(*  6   : a signed spend of ("Qtest", 10) to two recipients, twice the     *)
(*        size of 1 and 2, its fee rate between theirs                     *)
(*  7   : a signed payment of Qbob to Qtest                                *)
(*  8   : a signed payment of Qtest to Qminer                              *)
UserTx(n) ==
    CASE n = 1 -> Tx(1, <<Input("Qtest", 100, NoRef)>>, <<Output("Qbob", 99)>>, 1,
                     "PK_Qtest", "PK_Qtest")
      [] n = 2 -> Tx(2, <<Input("Qtest", 100, NoRef)>>, <<Output("Qbob", 90)>>, 2,
                     "PK_Qtest", "PK_Qtest")
      [] n = 3 -> Tx(3, <<Input("Qtest", 100, "o1")>>, <<Output("Qbob", 100)>>, 0,
                     NoKey, NoKey)
      [] n = 4 -> Tx(4, <<Input("Qtest", INITIAL_SUPPLY - 150, "o1")>>,
                     <<Output("Qbob", INITIAL_SUPPLY - 150)>>, 0, "PK_Qtest", "PK_Qtest")
      [] n = 6 -> Tx(6, <<Input("Qtest", 100, NoRef)>>,
                     <<Output("Qbob", 50), Output("Qminer", 47)>>, 3,
                     "PK_Qtest", "PK_Qtest")
      [] n = 7 -> Tx(7, <<Input("Qbob", 50, NoRef)>>, <<Output("Qtest", 49)>>, 1,
                     "PK_Qbob", "PK_Qbob")
      [] n = 8 -> Tx(8, <<Input("Qtest", 100, NoRef)>>, <<Output("Qminer", 99)>>, 1,
                     "PK_Qtest", "PK_Qtest")

UserTxIds == 1..4

MinerTxIds == {1}

(* Transaction.verify_signature: Falcon-512 as an oracle.                  *)
verify_signature(tx) ==
    IF tx.signature = NoKey THEN FALSE
    ELSE IF tx.public_key = NoKey THEN FALSE
    ELSE tx.signature = tx.public_key

(* config.calculate_block_reward                                           *)
calculate_block_reward(block_height) ==
    LET halvings == block_height \div HALVING_INTERVAL
    IN IF halvings >= MAX_HALVINGS THEN 0
       ELSE INITIAL_BLOCK_REWARD \div (2 ^ halvings)

(* Transaction.create_coinbase: no inputs, one output.                     *)
create_coinbase(recipient_address, amount, height) ==
    Tx(100 + 2 * height + (IF amount = calculate_block_reward(height) THEN 0 ELSE 1),
       <<>>, <<Output(recipient_address, amount)>>, 0, NoKey, NoKey)

Block(hash, prev_hash, height, timestamp, difficulty, pow, transactions) ==
    [hash |-> hash, prev_hash |-> prev_hash, height |-> height,
     timestamp |-> timestamp, difficulty |-> difficulty, pow |-> pow,
     transactions |-> transactions]

(* Block.validate.  The size check cannot fail on blocks this small, the   *)
(* merkle comparison is made against the root it has just recomputed, and  *)
(* pow says whether the recomputed header hash meets the target and equals *)
(* the stored hash with a nonce in range.                                  *)
validate(block, current_time) ==
    IF block.timestamp > current_time + FUTURE_LIMIT THEN FALSE
    ELSE IF block.difficulty < MINIMUM_DIFFICULTY THEN FALSE
    ELSE IF ~block.pow THEN FALSE
    ELSE IF Len(block.transactions) = 0 THEN FALSE
    ELSE IF Len(block.transactions[1].inputs) > 0 THEN FALSE
    ELSE TRUE

(* serialize_transaction: an input without a prev_tx key is written with   *)
(* an empty prev_tx and output_index 0.                                    *)
serialize_transaction(tx) ==
    [tx EXCEPT !.inputs = [i \in DOMAIN tx.inputs |->
        [tx.inputs[i] EXCEPT !.prev_tx = IF @ = NoRef THEN EmptyRef ELSE @]]]

(* serialize_block: the bytes of a block, a record of the encoded fields.  *)
serialize_block(block) ==
    [data |-> [block EXCEPT !.transactions =
        [i \in DOMAIN block.transactions |-> serialize_transaction(block.transactions[i])]]]

(* deserialize_block: every input read back has the prev_tx and            *)
(* output_index keys.                                                      *)
deserialize_block(block_data) == block_data.data

----------------------------------------------------------------------------
(* AccountDatabase.  A connection has the tables as the statements see     *)
(* them (live) and as of the last commit (saved).                          *)

Commit(c) == [c EXCEPT !.saved = c.live]

Rollback(c) == [c EXCEPT !.live = c.saved]

account_exists(c, address) == address \in DOMAIN c.live.accounts

get_account(c, address) == c.live.accounts[address]

create_account(c, address, balance, public_key, block_height) ==
    IF account_exists(c, address) THEN c
    ELSE Commit([c EXCEPT !.live.accounts =
            (address :> [balance |-> balance,
                         pubkey_block |-> IF public_key # NoKey THEN block_height ELSE NoBlock,
                         tx_count |-> 1]) @@ @])

(* an UPDATE of the balance that writes nothing                            *)
update_balance_unwritten(c, address, new_balance) == c

update_balance(c, address, new_balance) ==
    IF ~account_exists(c, address) THEN c
    ELSE Commit([c EXCEPT !.live.accounts[address].balance = new_balance])

update_account(c, address, pubkey_block, increment_tx_count) ==
    IF ~account_exists(c, address) THEN c
    ELSE IF pubkey_block = NoBlock /\ ~increment_tx_count THEN c
    ELSE Commit([c EXCEPT
            !.live.accounts[address].pubkey_block = IF pubkey_block # NoBlock THEN pubkey_block ELSE @,
            !.live.accounts[address].tx_count = IF increment_tx_count THEN @ + 1 ELSE @])

add_transaction_block(c, address, block_height) ==
    IF ~account_exists(c, address) THEN c
    ELSE Commit(update_account([c EXCEPT !.live.tx_blocks = @ \cup {<<address, block_height>>}],
                               address, NoBlock, TRUE))

set_last_processed_block(c, height) == Commit([c EXCEPT !.live.last_block = height])

(* "not current.get('pubkey_block')": NULL and 0 both count as unset.      *)
Falsy(pubkey_block) == pubkey_block = NoBlock \/ pubkey_block = 0

RECURSIVE CreditOutputs(_, _, _, _)
CreditOutputs(c, outputs, i, height) ==
    IF i > Len(outputs) THEN c
    ELSE LET address == outputs[i].address
             amount == outputs[i].amount
             c1 == IF ~account_exists(c, address)
                   THEN create_account(c, address, amount, NoKey, height)
                   ELSE update_balance(c, address, get_account(c, address).balance + amount)
         IN CreditOutputs(add_transaction_block(c1, address, height), outputs, i + 1, height)

RECURSIVE DebitInputs(_, _, _, _)
DebitInputs(c, tx, i, height) ==
    IF i > Len(tx.inputs) THEN [conn |-> c, ok |-> TRUE]
    ELSE LET address == tx.inputs[i].address
             amount == tx.inputs[i].amount
         IN IF ~account_exists(c, address) THEN [conn |-> Rollback(c), ok |-> FALSE]
            ELSE LET current == get_account(c, address)
                 IN IF current.balance < amount THEN [conn |-> Rollback(c), ok |-> FALSE]
                    ELSE LET c1 == update_balance(c, address, current.balance - amount)
                             c2 == IF tx.public_key # NoKey /\ Falsy(current.pubkey_block)
                                   THEN update_account(c1, address, height, FALSE)
                                   ELSE c1
                         IN DebitInputs(add_transaction_block(c2, address, height), tx, i + 1, height)

RECURSIVE ProcessTxs(_, _, _, _)
ProcessTxs(c, transactions, i, height) ==
    IF i > Len(transactions) THEN [conn |-> c, ok |-> TRUE]
    ELSE LET tx == transactions[i]
         IN IF Len(tx.inputs) = 0
            THEN ProcessTxs(CreditOutputs(c, tx.outputs, 1, height), transactions, i + 1, height)
            ELSE LET d == DebitInputs(c, tx, 1, height)
                 IN IF ~d.ok THEN d
                    ELSE ProcessTxs(CreditOutputs(d.conn, tx.outputs, 1, height),
                                    transactions, i + 1, height)

(* AccountDatabase.process_block: the tables after the call and its result *)
process_block(tables, block) ==
    IF block.height = 0 /\ tables.last_block # NoBlock /\ tables.last_block >= 0
    THEN [db |-> tables, ok |-> TRUE]
    ELSE LET r == ProcessTxs([live |-> tables, saved |-> tables],
                             block.transactions, 1, block.height)
         IN IF r.ok
            THEN [db |-> set_last_processed_block(r.conn, block.height).live, ok |-> TRUE]
            ELSE [db |-> r.conn.live, ok |-> FALSE]

Tables == [accounts |-> accounts, tx_blocks |-> tx_blocks, last_block |-> last_block]

get_balance(address) ==
    IF address \in DOMAIN accounts THEN accounts[address].balance ELSE 0

RECURSIVE SumBalances(_, _)
SumBalances(acc, S) ==
    IF S = {} THEN 0
    ELSE LET a == CHOOSE x \in S : TRUE
         IN acc[a].balance + SumBalances(acc, S \ {a})

(* AccountDatabase.get_total_supply                                        *)
get_total_supply(acc) == SumBalances(acc, DOMAIN acc)

----------------------------------------------------------------------------
(* ChainManager: block files and the two indexes.                          *)

None == Block(NoHash, NoHash, NoBlock, 0, 0, FALSE, <<>>)

current_file_number(files) == Len(files) - 1

current_file_size(files) == Len(files[Len(files)])

(* has_block without the index lookup: every block looks new               *)
has_block_unindexed(index, block_hash) == FALSE

has_block(index, block_hash) == block_hash \in DOMAIN index

get_block(files, index, block_hash) ==
    IF block_hash \notin DOMAIN index THEN None
    ELSE LET loc == index[block_hash]
         IN deserialize_block(files[loc.file + 1][loc.offset + 1])

get_block_hash_by_height(hindex, height) ==
    IF height \in DOMAIN hindex THEN hindex[height] ELSE NoHash

(* store_block that keeps the hash a height already has                    *)
store_block_keep_height(files, index, hindex, block) ==
    IF block.hash \in DOMAIN index
    THEN [files |-> files, index |-> index, hindex |-> hindex]
    ELSE LET rotate == current_file_size(files) + 1 > MaxFileBlocks
             files1 == IF rotate THEN Append(files, <<>>) ELSE files
             offset == current_file_size(files1)
             file == current_file_number(files1)
         IN [files |-> [files1 EXCEPT ![file + 1] = Append(@, serialize_block(block))],
             index |-> (block.hash :> [file |-> file, offset |-> offset, size |-> 1]) @@ index,
             hindex |-> hindex @@ (block.height :> block.hash)]

(* ChainManager.store_block: the files and indexes after the call.  A      *)
(* block takes one unit of a file that holds MaxFileBlocks units.          *)
store_block(files, index, hindex, block) ==
    IF block.hash \in DOMAIN index
    THEN [files |-> files, index |-> index, hindex |-> hindex]
    ELSE LET rotate == current_file_size(files) + 1 > MaxFileBlocks
             files1 == IF rotate THEN Append(files, <<>>) ELSE files
             offset == current_file_size(files1)
             file == current_file_number(files1)
         IN [files |-> [files1 EXCEPT ![file + 1] = Append(@, serialize_block(block))],
             index |-> (block.hash :> [file |-> file, offset |-> offset, size |-> 1]) @@ index,
             hindex |-> (block.height :> block.hash) @@ hindex]

----------------------------------------------------------------------------
(* Blockchain.                                                             *)

(* Blockchain._load_block: the block returned, and the not-found cache     *)
(* after the call.  The blocks cache only ever holds stored blocks that    *)
(* were loaded while absent from the not-found cache.                      *)
_load_block(nf, block_hash) ==
    IF block_hash \in nf THEN [block |-> None, nf |-> nf]
    ELSE IF has_block(block_index, block_hash)
    THEN [block |-> get_block(block_files, block_index, block_hash), nf |-> nf]
    ELSE [block |-> None,
          nf |-> (IF Cardinality(nf) >= NOT_FOUND_CACHE_MAX THEN {} ELSE nf) \cup {block_hash}]

get_block_by_height(nf, height) ==
    IF height = current_height THEN _load_block(nf, best_hash)
    ELSE LET block_hash == get_block_hash_by_height(height_index, height)
         IN IF block_hash # NoHash THEN _load_block(nf, block_hash)
            ELSE [block |-> None, nf |-> nf]

(* round(x, DIFFICULTY_PRECISION) of the quotient n / d, in units of 1e-8  *)
RoundDiv(n, d) ==
    LET q == n \div d
        r == n % d
    IN IF 2 * r > d \/ (2 * r = d /\ q % 2 = 1) THEN q + 1 ELSE q

Max(a, b) == IF a >= b THEN a ELSE b

(* difficulty_adjuster.adjust_difficulty                                   *)
adjust_difficulty(prev_difficulty, actual_timespan, expected_timespan, min_difficulty) ==
    LET a0 == IF actual_timespan <= 0 THEN expected_timespan ELSE actual_timespan
        a1 == IF a0 < expected_timespan \div 4 THEN expected_timespan \div 4 ELSE a0
        a2 == IF a1 > expected_timespan * 4 THEN expected_timespan * 4 ELSE a1
    IN Max(RoundDiv(prev_difficulty * expected_timespan, a2), min_difficulty)

(* Blockchain.calculate_next_difficulty                                    *)
calculate_next_difficulty(nf) ==
    IF current_height % DIFFICULTY_ADJUSTMENT_BLOCKS # 0
    THEN LET cur == _load_block(nf, best_hash)
         IN [difficulty |-> IF cur.block # None THEN cur.block.difficulty ELSE INITIAL_DIFFICULTY,
             nf |-> cur.nf]
    ELSE LET adjustment_start_height == Max(0, current_height - DIFFICULTY_ADJUSTMENT_BLOCKS)
             start == get_block_by_height(nf, adjustment_start_height)
             end == _load_block(start.nf, best_hash)
         IN IF start.block = None \/ end.block = None
            THEN [difficulty |-> INITIAL_DIFFICULTY, nf |-> end.nf]
            ELSE [difficulty |-> adjust_difficulty(end.block.difficulty,
                                    end.block.timestamp - start.block.timestamp,
                                    DIFFICULTY_ADJUSTMENT_TIMESPAN, MINIMUM_DIFFICULTY),
                  nf |-> end.nf]

(* Blockchain.get_next_block_difficulty                                    *)
get_next_block_difficulty(nf) ==
    LET next_height == current_height + 1
    IN IF next_height > 0 /\ next_height % DIFFICULTY_ADJUSTMENT_BLOCKS = 0
       THEN calculate_next_difficulty(nf)
       ELSE LET cur == _load_block(nf, best_hash)
            IN [difficulty |-> IF cur.block # None THEN cur.block.difficulty ELSE INITIAL_DIFFICULTY,
                nf |-> cur.nf]

(* add_block up to the ledger: the reason a block is turned away ("ok" if  *)
(* it is not) and the not-found cache after the parent lookups.            *)
check_block(block) ==
    IF ~validate(block, now) THEN [why |-> "validation", nf |-> not_found_cache]
    ELSE IF block.height = 0
    THEN [why |-> IF current_height >= 0 THEN "genesis" ELSE "ok", nf |-> not_found_cache]
    ELSE LET p == _load_block(not_found_cache, block.prev_hash)
             parent == p.block
         IN IF parent = None THEN [why |-> "parent", nf |-> p.nf]
            ELSE IF block.height # parent.height + 1 THEN [why |-> "height", nf |-> p.nf]
            ELSE IF block.timestamp <= parent.timestamp THEN [why |-> "timestamp", nf |-> p.nf]
            ELSE IF block.height > 0 /\ block.height % DIFFICULTY_ADJUSTMENT_BLOCKS = 0
            THEN LET e == calculate_next_difficulty(p.nf)
                 IN [why |-> IF block.difficulty # e.difficulty THEN "difficulty" ELSE "ok",
                     nf |-> e.nf]
            ELSE IF block.difficulty < MINIMUM_DIFFICULTY THEN [why |-> "difficulty", nf |-> p.nf]
            ELSE IF block.difficulty # parent.difficulty THEN [why |-> "difficulty", nf |-> p.nf]
            ELSE [why |-> "ok", nf |-> p.nf]

----------------------------------------------------------------------------
(* Mempool.  transactions is a map from hash to transaction; the address   *)
(* index and the total size follow from it.  A transaction with one input  *)
(* and one output has unit size; among such fee_per_kb orders as fee.      *)

RECURSIVE SumInputs(_, _, _)
SumInputs(inputs, i, address) ==
    IF i > Len(inputs) THEN 0
    ELSE (IF inputs[i].address = address THEN inputs[i].amount ELSE 0)
         + SumInputs(inputs, i + 1, address)

RECURSIVE SumAmounts(_, _)
SumAmounts(entries, i) ==
    IF i > Len(entries) THEN 0 ELSE entries[i].amount + SumAmounts(entries, i + 1)

(* the balance check without the spending already in the mempool          *)
SpendingNotCounted(pool, hashes, address) == 0

RECURSIVE SpendingInMempool(_, _, _)
SpendingInMempool(pool, hashes, address) ==
    IF hashes = {} THEN 0
    ELSE LET h == CHOOSE x \in hashes : TRUE
         IN SumInputs(pool[h].inputs, 1, address) + SpendingInMempool(pool, hashes \ {h}, address)

InputAddresses(tx) == {tx.inputs[i].address : i \in DOMAIN tx.inputs}

OutputAddresses(tx) == {tx.outputs[i].address : i \in DOMAIN tx.outputs}

(* inputs that have the prev_tx and output_index keys                      *)
SpentOutputs(tx) == {tx.inputs[i].prev_tx : i \in {j \in DOMAIN tx.inputs : tx.inputs[j].prev_tx # NoRef}}

address_tx_index(pool, address) ==
    {h \in DOMAIN pool : address \in InputAddresses(pool[h]) \cup OutputAddresses(pool[h])}

(* AccountDatabase.get_account_public_key                                  *)
get_account_public_key(address) ==
    IF address \notin DOMAIN accounts THEN NoKey
    ELSE IF Falsy(accounts[address].pubkey_block) THEN NoKey
    ELSE LET block == get_block_by_height(not_found_cache, accounts[address].pubkey_block).block
             senders == {i \in DOMAIN block.transactions :
                            address \in InputAddresses(block.transactions[i])}
         IN IF block = None \/ senders = {} THEN NoKey
            ELSE block.transactions[CHOOSE i \in senders : \A j \in senders : i <= j].public_key

(* Blockchain.get_input_amount                                             *)
get_input_amount(tx_input) ==
    IF get_balance(tx_input.address) < tx_input.amount THEN NoBlock ELSE tx_input.amount

(* Transaction.validate                                                    *)
validate_transaction(tx) ==
    IF ~verify_signature(tx) THEN FALSE
    ELSE IF Len(tx.inputs) = 0 THEN TRUE
    ELSE IF \E i \in DOMAIN tx.inputs : get_input_amount(tx.inputs[i]) = NoBlock THEN FALSE
    ELSE SumAmounts(tx.outputs, 1) + tx.fee <= SumAmounts(tx.inputs, 1)

(* len(json.dumps(tx.to_dict())), in units of the size of a transaction    *)
(* with one input and one output                                           *)
tx_size(tx) == Len(tx.inputs) + Len(tx.outputs) - 1

(* Mempool.total_size                                                      *)
RECURSIVE total_size(_, _)
total_size(pool, hashes) ==
    IF hashes = {} THEN 0
    ELSE LET h == CHOOSE x \in hashes : TRUE
         IN tx_size(pool[h]) + total_size(pool, hashes \ {h})

(* fee_per_kb of a is below that of b                                      *)
LowerFeeRate(a, b) == a.fee * tx_size(b) < b.fee * tx_size(a)

(* the loop of _make_room_for_transaction over the transactions sorted by  *)
(* fee_per_kb, lowest first: it ends at the first one whose rate is not    *)
(* below the new transaction's, or when the freed space reaches the        *)
(* required size                                                           *)
RECURSIVE removed_txs(_, _, _, _, _)
removed_txs(pool, hashes, required_size, new_fee, freed_space) ==
    IF hashes = {} THEN {}
    ELSE LET h == CHOOSE x \in hashes : \A g \in hashes :
                     \/ LowerFeeRate(pool[x], pool[g])
                     \/ (~LowerFeeRate(pool[g], pool[x]) /\ x <= g)
         IN IF pool[h].fee * required_size >= new_fee * tx_size(pool[h]) THEN {}
            ELSE IF freed_space + tx_size(pool[h]) >= required_size THEN {h}
            ELSE {h} \cup removed_txs(pool, hashes \ {h}, required_size, new_fee,
                                      freed_space + tx_size(pool[h]))

(* Mempool._make_room_for_transaction: the hashes evicted to make room for *)
(* a transaction of the required size and the given fee                    *)
_make_room_for_transaction(pool, required_size, new_fee) ==
    IF total_size(pool, DOMAIN pool) + required_size <= MempoolMaxTxs THEN {}
    ELSE removed_txs(pool, DOMAIN pool, required_size, new_fee, 0)

Restrict(f, S) == [x \in S |-> f[x]]

(* Mempool.add_transaction(tx, blockchain): result and pool after the call *)
add_transaction(pool, tx) ==
    IF tx.hash \in DOMAIN pool THEN [ok |-> TRUE, why |-> "exists", pool |-> pool]
    ELSE LET sender == IF Len(tx.inputs) > 0 THEN tx.inputs[1].address ELSE NoKey
             recovered == IF tx.public_key = NoKey /\ Len(tx.inputs) > 0
                          THEN get_account_public_key(sender) ELSE tx.public_key
             tx1 == [tx EXCEPT !.public_key = recovered]
             senders == InputAddresses(tx1)
             spending(a) == SumInputs(tx1.inputs, 1, a) + tx1.fee \div Cardinality(senders)
             evicted == _make_room_for_transaction(pool, tx_size(tx1), tx1.fee)
             pool1 == Restrict(pool, DOMAIN pool \ evicted)
             tx2 == IF tx1.public_key # NoKey /\ Len(tx1.inputs) > 0
                       /\ get_account_public_key(sender) # NoKey
                    THEN [tx1 EXCEPT !.public_key = NoKey] ELSE tx1
         IN IF tx.public_key = NoKey /\ Len(tx.inputs) > 0 /\ recovered = NoKey
            THEN [ok |-> FALSE, why |-> "public_key", pool |-> pool]
            ELSE IF ~verify_signature(tx1)
            THEN [ok |-> FALSE, why |-> "signature", pool |-> pool]
            ELSE IF \E h \in DOMAIN pool : SpentOutputs(tx1) \cap SpentOutputs(pool[h]) # {}
            THEN [ok |-> FALSE, why |-> "double_spend", pool |-> pool]
            ELSE IF \E a \in senders :
                      get_balance(a) < SpendingInMempool(pool, DOMAIN pool, a) + spending(a)
            THEN [ok |-> FALSE, why |-> "balance", pool |-> pool]
            ELSE IF ~validate_transaction(tx1)
            THEN [ok |-> FALSE, why |-> "validation", pool |-> pool]
            ELSE IF total_size(pool1, DOMAIN pool1) + tx_size(tx1) > MempoolMaxTxs
            THEN [ok |-> FALSE, why |-> "full", pool |-> pool1]
            ELSE [ok |-> TRUE, why |-> "added", pool |-> (tx2.hash :> tx2) @@ pool1]

(* Mempool.get_transactions_for_block: highest fee first, then by hash,    *)
(* up to a block of MaxBlockTxs units.                                     *)
RECURSIVE SelectByFee(_, _, _)
SelectByFee(pool, hashes, room) ==
    IF hashes = {} \/ room <= 0 THEN <<>>
    ELSE LET h == CHOOSE x \in hashes : \A g \in hashes :
                     pool[x].fee > pool[g].fee \/ (pool[x].fee = pool[g].fee /\ x <= g)
         IN <<pool[h]>> \o SelectByFee(pool, hashes \ {h}, room - 1)

get_transactions_for_block(pool) == SelectByFee(pool, DOMAIN pool, MaxBlockTxs)

(* Mempool.remove_confirmed_transactions: the pool after the call          *)
remove_confirmed_transactions(pool, block) ==
    LET spends == {i \in DOMAIN block.transactions : Len(block.transactions[i].inputs) > 0}
        tx_hashes_to_remove == {block.transactions[i].hash : i \in spends} \cap DOMAIN pool
        spent_outputs == UNION {SpentOutputs(block.transactions[i]) : i \in spends}
        affected_addresses == UNION {InputAddresses(block.transactions[i]) : i \in spends}
        pool1 == Restrict(pool, DOMAIN pool \ tx_hashes_to_remove)
        method1 == {h \in DOMAIN pool1 : SpentOutputs(pool1[h]) \cap spent_outputs # {}}
        method2 == UNION {address_tx_index(pool1, a) : a \in affected_addresses}
    IN Restrict(pool1, DOMAIN pool1 \ (method1 \cup method2))

----------------------------------------------------------------------------
(* The node after construction: no bootstrap peers are configured, so      *)
(* _initialize_blockchain creates, processes and stores the genesis block. *)

GenesisBlock ==
    Block(1, NoHash, 0, Epoch, INITIAL_DIFFICULTY, TRUE,
          <<create_coinbase("Qtest", INITIAL_SUPPLY, 0)>>)

Idle == [block |-> None, caller |-> "none"]

(* P2PNetwork.__init__: no peer is known, nothing has been sent.           *)
(* the threads of the lock model: the processing thread of a connection,   *)
(* the ping task and a connect_to_peer call that records its failure       *)
LockThreads == {"handler", "pinger", "banner"}

(* the threads that have a position of their own in thread_pc: those of    *)
(* the lock model and the mining thread of a second start_mining           *)
Threads == LockThreads \cup {"miner"}

(* a lock nobody holds                                                     *)
Unlocked == "unlocked"

P2PInit ==
    /\ lock_owner = Unlocked
    /\ send_lock = Unlocked
    /\ peer_connected = FALSE
    /\ thread_pc = [t \in Threads |-> "idle"]
    /\ peers = <<>>
    /\ active_connections = {}
    /\ connections = <<>>
    /\ connecting = {}
    /\ connection_failures = <<>>
    /\ banned_ips = <<>>
    /\ failed_in_a_row = <<>>
    /\ net = {}
    /\ sync_state = [syncing |-> FALSE, sync_peer |-> "nobody", sync_height |-> 0]
    /\ handling = None

(* SyncState.__init__                                                      *)
SyncStateInit ==
    /\ syncing = FALSE
    /\ mode = "idle"
    /\ target_height = 0
    /\ initial_height = 0
    /\ sync_current_height = 0
    /\ last_progress_time = 0
    /\ headers_in_flight = {}
    /\ headers_map = <<>>
    /\ verified_headers = {}
    /\ blocks_queue = {}
    /\ blocks_in_flight = {}
    /\ downloaded_blocks = {}
    /\ blocks_processing_queue = <<>>
    /\ blocks_downloaded = 0
    /\ stop_event = FALSE
    /\ headers_pc = "none"
    /\ blocks_pc = "none"
    /\ processing_pc = "none"

(* no ProofOfWork object exists, BlockMiner.__init__: mining is off        *)
NoSolver == [pc |-> "none"]

PowInit ==
    /\ mining = FALSE
    /\ pow_solver = NoSolver
    /\ mined_block = None
    /\ hashes_after_stop = 0

NodeInit ==
    LET db == process_block([accounts |-> <<>>, tx_blocks |-> {}, last_block |-> NoBlock],
                            GenesisBlock).db
        st == store_block(<< <<>> >>, <<>>, <<>>, GenesisBlock)
    IN /\ now = Epoch
       /\ block_files = st.files
       /\ block_index = st.index
       /\ height_index = st.hindex
       /\ current_height = 0
       /\ best_hash = GenesisBlock.hash
       /\ not_found_cache = {}
       /\ accounts = db.accounts
       /\ tx_blocks = db.tx_blocks
       /\ last_block = db.last_block
       /\ processed = 0
       /\ mempool = <<>>
       /\ chain_pc = "idle"
       /\ chain_cur = Idle
       /\ miner_pc = "idle"
       /\ miner_tmpl = None
       /\ last = [op |-> "init", ok |-> TRUE, why |-> "init"]
       /\ P2PInit
       /\ SyncStateInit

Init == NodeInit /\ PowInit

(* the node runs with the P2P network disabled (enable_p2p false): no peer, *)
(* no synchronizer                                                         *)
NoNetwork == UNCHANGED <<p2pVars, syncVars, connVars, powVars>>

(* no connection is refused or banned, nothing is mined by hand            *)
Quiet == UNCHANGED <<connVars, powVars>>

(* time passes                                                             *)
Tick(max_ticks) ==
    /\ now < Epoch + max_ticks * TickSeconds
    /\ now' = now + TickSeconds
    /\ UNCHANGED <<chainVars, ledgerVars, not_found_cache, processed, mempool,
                   chain_pc, chain_cur, miner_pc, miner_tmpl, last>>

(* the hash of a block that is not stored yet                              *)
NextHash == Cardinality(DOMAIN block_index) + 1

StoredBlocks == {get_block(block_files, block_index, h) : h \in DOMAIN block_index}

(* Blockchain.add_block, from taking the chain lock to the tip update.  A  *)
(* call that returns early gives the lock back in the same step.           *)
AddBlockMain(caller, block, max_processed) ==
    /\ chain_pc = "idle"
    /\ IF has_block(block_index, block.hash)
       THEN /\ last' = [op |-> "add_block", ok |-> TRUE, why |-> "exists"]
            /\ miner_pc' = IF caller = "miner" THEN "verify" ELSE miner_pc
            /\ UNCHANGED <<chainVars, ledgerVars, not_found_cache, processed,
                           chain_pc, chain_cur, miner_tmpl>>
       ELSE LET c == check_block(block)
            IN IF c.why # "ok"
               THEN /\ last' = [op |-> "add_block", ok |-> FALSE, why |-> c.why]
                    /\ not_found_cache' = c.nf
                    /\ miner_pc' = IF caller = "miner" THEN "idle" ELSE miner_pc
                    /\ miner_tmpl' = IF caller = "miner" THEN None ELSE miner_tmpl
                    /\ UNCHANGED <<chainVars, ledgerVars, processed, chain_pc, chain_cur>>
               ELSE /\ processed < max_processed
                    /\ processed' = processed + 1
                    /\ not_found_cache' = c.nf
                    /\ LET r == process_block(Tables, block)
                           st == store_block(block_files, block_index, height_index, block)
                       IN /\ accounts' = r.db.accounts
                          /\ tx_blocks' = r.db.tx_blocks
                          /\ last_block' = r.db.last_block
                          /\ IF ~r.ok
                             THEN /\ last' = [op |-> "add_block", ok |-> FALSE, why |-> "ledger"]
                                  /\ miner_pc' = IF caller = "miner" THEN "idle" ELSE miner_pc
                                  /\ miner_tmpl' = IF caller = "miner" THEN None ELSE miner_tmpl
                                  /\ UNCHANGED <<chainVars, chain_pc, chain_cur>>
                             ELSE /\ block_files' = st.files
                                  /\ block_index' = st.index
                                  /\ height_index' = st.hindex
                                  /\ current_height' = block.height
                                  /\ best_hash' = block.hash
                                  /\ chain_pc' = "cleanup"
                                  /\ chain_cur' = [block |-> block, caller |-> caller]
                                  /\ UNCHANGED <<miner_pc, miner_tmpl, last>>
    /\ UNCHANGED <<now, mempool>>

(* add_block, after the tip update: the mempool drops what the block       *)
(* confirmed, still under the chain lock.                                  *)
AddBlockCleanup ==
    /\ chain_pc = "cleanup"
    /\ mempool' = remove_confirmed_transactions(mempool, chain_cur.block)
    /\ chain_pc' = "return"
    /\ UNCHANGED <<now, chainVars, ledgerVars, not_found_cache, processed,
                   chain_cur, miner_pc, miner_tmpl, last>>

(* add_block returns True and gives the chain lock back.                   *)
AddBlockReturn ==
    /\ chain_pc = "return"
    /\ chain_pc' = "idle"
    /\ chain_cur' = Idle
    /\ last' = [op |-> "add_block", ok |-> TRUE, why |-> "added"]
    /\ miner_pc' = IF chain_cur.caller = "miner" THEN "verify" ELSE miner_pc
    /\ miner_tmpl' = IF chain_cur.caller = "miner" THEN chain_cur.block ELSE miner_tmpl
    /\ UNCHANGED <<now, chainVars, ledgerVars, not_found_cache, processed, mempool>>

(* Mempool.add_transaction called by the API, the CLI or a peer handler;   *)
(* it takes the mempool lock only.                                         *)
AddTransaction(n) ==
    LET r == add_transaction(mempool, UserTx(n))
    IN /\ mempool' = r.pool
       /\ last' = [op |-> "add_transaction", ok |-> r.ok, why |-> r.why]
       /\ UNCHANGED <<now, chainVars, ledgerVars, not_found_cache, processed,
                      chain_pc, chain_cur, miner_pc, miner_tmpl>>

(* BlockMiner._mine_next_block: the candidate on top of the current tip.   *)
(* Its hash is the one the solved header gets.                             *)
_mine_next_block ==
    LET height == current_height + 1
        d == get_next_block_difficulty(not_found_cache)
        coinbase_tx == create_coinbase("Qminer", calculate_block_reward(height), height)
    IN Block(NoHash, best_hash, height, now, d.difficulty, TRUE,
             <<coinbase_tx>> \o get_transactions_for_block(mempool))

MinerCreate ==
    /\ miner_pc = "idle"
    /\ miner_tmpl' = _mine_next_block
    /\ not_found_cache' = get_next_block_difficulty(not_found_cache).nf
    /\ miner_pc' = "mined"
    /\ UNCHANGED <<now, chainVars, ledgerVars, processed, mempool, chain_pc, chain_cur, last>>

(* BlockMiner._mining_loop: the mined block goes to add_block.             *)
MinerSubmit(max_processed) ==
    /\ miner_pc = "mined"
    /\ AddBlockMain("miner", [miner_tmpl EXCEPT !.hash = NextHash], max_processed)

(* _mining_loop after a successful add_block: transactions of the block    *)
(* still found in the mempool are removed once more.                       *)
MinerVerify ==
    /\ miner_pc = "verify"
    /\ mempool' = IF \E i \in DOMAIN miner_tmpl.transactions :
                        miner_tmpl.transactions[i].hash \in DOMAIN mempool
                  THEN remove_confirmed_transactions(mempool, miner_tmpl)
                  ELSE mempool
    /\ miner_pc' = "idle"
    /\ miner_tmpl' = None
    /\ UNCHANGED <<now, chainVars, ledgerVars, not_found_cache, processed,
                   chain_pc, chain_cur, last>>

(* Blocks a peer, the synchronizer or the API can hand to add_block.       *)
MintAmount == MAX_SUPPLY

PeerTransactions(height) ==
    {<<create_coinbase("Qminer", calculate_block_reward(height), height)>>,
     <<create_coinbase("Qminer", MintAmount, height)>>}
    \cup {<<create_coinbase("Qminer", calculate_block_reward(height), height), UserTx(n)>> :
             n \in UserTxIds}

CoinbaseOnly(height) ==
    {<<create_coinbase("Qminer", calculate_block_reward(height), height)>>}

(* blocks with a solved header on top of a stored block, time-stamped now  *)
BlocksOn(parent, transactions(_), difficulties(_)) ==
    {Block(NextHash, parent.hash, parent.height + 1, now, d, TRUE, t) :
        d \in difficulties(parent), t \in transactions(parent.height + 1)}

Unchanged(parent) == {parent.difficulty}

UnchangedOrDoubled(parent) == {parent.difficulty, 2 * parent.difficulty}

(* blocks that break one rule each, on top of the tip                      *)
MalformedBlocks ==
    LET tip == get_block(block_files, block_index, best_hash)
        h == tip.height + 1
        cb == <<create_coinbase("Qminer", calculate_block_reward(h), h)>>
    IN {Block(NextHash, tip.hash, h, now, tip.difficulty, FALSE, cb),
        Block(NextHash, tip.hash, h, now + FUTURE_LIMIT + 1, tip.difficulty, TRUE, cb),
        Block(NextHash, tip.hash, h, now, MINIMUM_DIFFICULTY - 1, TRUE, cb),
        Block(NextHash, tip.hash, h, now, tip.difficulty, TRUE, <<>>),
        Block(NextHash, tip.hash, h, now, tip.difficulty, TRUE, <<UserTx(1)>>),
        Block(NextHash, tip.hash, h + 1, now, tip.difficulty, TRUE, cb),
        Block(NextHash, tip.hash, h, now, 2 * tip.difficulty, TRUE, cb),
        Block(NextHash, NoHash, 0, now, INITIAL_DIFFICULTY, TRUE, GenesisBlock.transactions)}

PeerBlocks ==
    UNION {BlocksOn(parent, PeerTransactions, Unchanged) : parent \in StoredBlocks}
    \cup MalformedBlocks \cup StoredBlocks

ChainBlocks ==
    UNION {BlocksOn(parent, CoinbaseOnly, UnchangedOrDoubled) : parent \in StoredBlocks} \cup StoredBlocks

(* The node without its miner: peers, the synchronizer and the API hand    *)
(* blocks and transactions over.                                           *)
Clock == Tick(MaxTicks)

SubmitBlock == \E block \in PeerBlocks : AddBlockMain("peer", block, MaxBlocks)

SubmitTransaction == \E n \in UserTxIds : AddTransaction(n)

Next ==
    \/ Clock /\ NoNetwork
    \/ SubmitBlock /\ NoNetwork
    \/ AddBlockCleanup /\ NoNetwork
    \/ AddBlockReturn /\ NoNetwork
    \/ SubmitTransaction /\ NoNetwork

Spec == Init /\ [][Next]_vars

(* The mining node: the miner thread runs next to a peer handler that      *)
(* relays coinbase-only blocks, over a longer chain.                       *)
MinerClock == Tick(MaxMinerTicks)

RelayBlock == \E block \in ChainBlocks : AddBlockMain("peer", block, MaxMinerBlocks)

Mine == MinerSubmit(MaxMinerBlocks)

SubmitPayment == \E n \in MinerTxIds : AddTransaction(n)

MinerNext ==
    \/ MinerClock /\ NoNetwork
    \/ RelayBlock /\ NoNetwork
    \/ AddBlockCleanup /\ NoNetwork
    \/ AddBlockReturn /\ NoNetwork
    \/ SubmitPayment /\ NoNetwork
    \/ MinerCreate /\ NoNetwork
    \/ Mine /\ NoNetwork
    \/ MinerVerify /\ NoNetwork

MinerSpec == Init /\ [][MinerNext]_vars

----------------------------------------------------------------------------
(* The synchronizer (src/core/network/sync.py): SyncState and its worker   *)
(* threads, next to the peer table of the P2P network.                     *)

HEADERS_PER_REQUEST == 2000       \* start_height + 1999
MAX_HEADERS_IN_FLIGHT == 5
MAX_BLOCKS_IN_FLIGHT == 20
HEADER_TIMEOUT == 30
BLOCK_TIMEOUT == 60

PeerHeight == 2         \* height of the chain the peer serves
MaxSyncTicks == 2       \* clock ticks while synchronizing

NoPeer == "nobody"      \* None for a peer id

Peers == {"A"}

nodeVars == <<now, chainVars, ledgerVars, not_found_cache, processed, mempool,
              chain_pc, chain_cur, miner_pc, miner_tmpl, last>>

(* the chain the peer serves: coinbase-only blocks on the genesis block    *)
PeerChain(h) ==
    IF h = 0 THEN GenesisBlock
    ELSE Block(h + 1, h, h, Epoch + h, INITIAL_DIFFICULTY, TRUE,
               <<create_coinbase("Qminer", calculate_block_reward(h), h)>>)

Header(h) == [height |-> h, hash |-> PeerChain(h).hash]

(* Block.to_dict: the dictionary of the fields of a block, its hash among  *)
(* them (pow stands for the nonce).  Block.from_dict builds the block from *)
(* the fields and takes the hash of the dictionary, it does not recompute  *)
(* it.                                                                     *)
to_dict(block) ==
    [prev_hash |-> block.prev_hash, timestamp |-> block.timestamp, height |-> block.height,
     difficulty |-> block.difficulty, pow |-> block.pow,
     transactions |-> block.transactions, hash |-> block.hash]

from_dict(block_dict) ==
    Block(block_dict.hash, block_dict.prev_hash, block_dict.height, block_dict.timestamp,
          block_dict.difficulty, block_dict.pow, block_dict.transactions)

(* a message on the connection to a peer: a request of ours on its way to  *)
(* the peer, or a message of the peer on its way to us                     *)
Msg(peer, type, a, b) == [peer |-> peer, out |-> TRUE, type |-> type, a |-> a, b |-> b]

Reply(peer, type, a, b) == [peer |-> peer, out |-> FALSE, type |-> type, a |-> a, b |-> b]

Min(a, b) == IF a <= b THEN a ELSE b

(* SyncState._select_sync_peer: the connected peer furthest ahead of us    *)
_select_sync_peer ==
    LET ahead == {p \in active_connections \cap DOMAIN peers : peers[p] > current_height}
    IN IF ahead = {} THEN NoPeer
       ELSE CHOOSE p \in ahead : \A q \in ahead : peers[q] <= peers[p]

(* SyncState._request_next_headers: the in-flight set and the network      *)
(* after the call                                                          *)
_request_next_headers(in_flight, start_height) ==
    LET peer == _select_sync_peer
        end_height == Min(start_height + HEADERS_PER_REQUEST - 1, target_height)
    IN IF peer = NoPeer THEN [in_flight |-> in_flight, net |-> net]
       ELSE [in_flight |-> in_flight \cup (start_height..end_height),
             net |-> net \cup {Msg(peer, "GET_HEADERS", start_height, end_height)}]

(* SyncState._verify_block_header                                          *)
_verify_block_header(header_data, height) == header_data.height = height

(* SyncState._reset_sync_state                                             *)
_reset_sync_state ==
    /\ headers_in_flight' = {}
    /\ headers_map' = <<>>
    /\ verified_headers' = {}
    /\ blocks_queue' = {}
    /\ blocks_in_flight' = {}
    /\ downloaded_blocks' = {}
    /\ blocks_processing_queue' = <<>>

(* BlockchainSynchronizer.start_sync and SyncState.start_sync.  A          *)
(* processing worker of an earlier sync that is still inside add_block     *)
(* goes on as a worker of this one.                                        *)
StartSync ==
    LET connected == active_connections \cap DOMAIN peers
        best_height == IF \E p \in connected : peers[p] > current_height
                       THEN peers[_select_sync_peer] ELSE current_height
    IN /\ best_height > current_height
       /\ ~syncing
       /\ syncing' = TRUE
       /\ mode' = "headers_sync"
       /\ target_height' = best_height
       /\ initial_height' = current_height
       /\ sync_current_height' = current_height
       /\ last_progress_time' = now
       /\ blocks_downloaded' = 0
       /\ _reset_sync_state
       /\ stop_event' = FALSE
       /\ headers_pc' = "start"
       /\ blocks_pc' = "wait"
       /\ processing_pc' = IF processing_pc = "adding" THEN "adding" ELSE "loop"
       /\ UNCHANGED <<nodeVars, p2pVars>>

(* SyncState.stop_sync called from outside the worker threads; the joins   *)
(* give up after two seconds each.                                         *)
StopSync ==
    /\ syncing
    /\ syncing' = FALSE
    /\ stop_event' = TRUE
    /\ _reset_sync_state
    /\ mode' = "idle"
    /\ UNCHANGED <<nodeVars, p2pVars, target_height, initial_height, sync_current_height,
                   last_progress_time, blocks_downloaded, headers_pc, blocks_pc,
                   processing_pc>>


(* _headers_sync_thread, before its loop: the first request                *)
HeadersStart ==
    /\ headers_pc = "start"
    /\ LET r == _request_next_headers(headers_in_flight, sync_current_height + 1)
       IN /\ headers_in_flight' = r.in_flight
          /\ net' = r.net
    /\ headers_pc' = "loop"
    /\ UNCHANGED <<nodeVars, peers, active_connections, connections, sync_state, handling, syncing, mode, target_height,
                   initial_height, sync_current_height, last_progress_time, headers_map,
                   verified_headers, blocks_queue, blocks_in_flight, downloaded_blocks,
                   blocks_processing_queue, blocks_downloaded, stop_event, blocks_pc,
                   processing_pc>>

(* the end of a pass of the headers loop: requests that timed out leave    *)
(* the in-flight set, then the first height that is not buffered is asked  *)
(* for                                                                     *)
HeaderRequests ==
    LET expired == now - last_progress_time > HEADER_TIMEOUT
        kept == IF expired THEN {} ELSE headers_in_flight
        missing == {h \in (sync_current_height + 1)..target_height : h \notin DOMAIN headers_map}
        next_request_height ==
            IF missing = {} THEN target_height + 1
            ELSE CHOOSE h \in missing : \A g \in missing : h <= g
    IN IF /\ Cardinality(kept) < MAX_HEADERS_IN_FLIGHT
          /\ sync_current_height < target_height
          /\ next_request_height <= target_height
          /\ next_request_height \notin kept
       THEN _request_next_headers(kept, next_request_height)
       ELSE [in_flight |-> kept, net |-> net]

(* the verification loop taking the lowest buffered header instead of the  *)
(* header of the next height                                               *)
HeadersPassLowestBuffered ==
    LET buffered == {h \in DOMAIN headers_map : h > sync_current_height /\ h <= target_height}
        next_height == CHOOSE h \in buffered : \A g \in buffered : h <= g
    IN IF buffered # {}
       THEN /\ verified_headers' = verified_headers \cup {next_height}
            /\ sync_current_height' = next_height
            /\ blocks_queue' = blocks_queue \cup
                   {[height |-> next_height, hash |-> headers_map[next_height].hash]}
            /\ last_progress_time' = now
            /\ headers_map' = Restrict(headers_map, DOMAIN headers_map \ {next_height})
            /\ headers_pc' = "verify"
            /\ UNCHANGED <<syncing, mode, stop_event, headers_in_flight, net>>
       ELSE /\ mode' = IF sync_current_height >= target_height THEN "blocks_sync" ELSE mode
            /\ headers_in_flight' = HeaderRequests.in_flight
            /\ net' = HeaderRequests.net
            /\ headers_pc' = "loop"
            /\ UNCHANGED <<syncing, stop_event, verified_headers, sync_current_height,
                           blocks_queue, last_progress_time, headers_map>>

(* one turn of "while next_height in self.headers_map": the next header is *)
(* verified and queued for download, or the pass ends.  stop_sync, called  *)
(* by the headers thread itself, raises at the join of the calling thread, *)
(* after it has cleared syncing and set the stop event.                    *)
HeadersPass ==
    LET next_height == sync_current_height + 1
    IN IF next_height \in DOMAIN headers_map /\ next_height <= target_height
       THEN LET header_data == headers_map[next_height]
            IN IF _verify_block_header(header_data, next_height)
               THEN /\ verified_headers' = verified_headers \cup {next_height}
                    /\ sync_current_height' = next_height
                    /\ blocks_queue' = blocks_queue \cup
                           {[height |-> next_height, hash |-> header_data.hash]}
                    /\ last_progress_time' = now
                    /\ headers_map' = Restrict(headers_map, DOMAIN headers_map \ {next_height})
                    /\ headers_pc' = "verify"
                    /\ UNCHANGED <<syncing, mode, stop_event, headers_in_flight, net>>
               ELSE /\ syncing' = FALSE
                    /\ stop_event' = TRUE
                    /\ headers_pc' = "done"
                    /\ UNCHANGED <<mode, verified_headers, sync_current_height, blocks_queue,
                                   last_progress_time, headers_map, headers_in_flight, net>>
       ELSE /\ mode' = IF sync_current_height >= target_height THEN "blocks_sync" ELSE mode
            /\ headers_in_flight' = HeaderRequests.in_flight
            /\ net' = HeaderRequests.net
            /\ headers_pc' = "loop"
            /\ UNCHANGED <<syncing, stop_event, verified_headers, sync_current_height,
                           blocks_queue, last_progress_time, headers_map>>

headersFrame == <<nodeVars, peers, active_connections, connections, sync_state, handling, target_height, initial_height,
                  blocks_in_flight, downloaded_blocks, blocks_processing_queue,
                  blocks_downloaded, blocks_pc, processing_pc>>

(* _headers_sync_thread at the top of its loop                             *)
HeadersLoop ==
    /\ headers_pc = "loop"
    /\ IF stop_event \/ ~syncing \/ mode # "headers_sync"
       THEN /\ headers_pc' = "done"
            /\ UNCHANGED <<syncing, mode, stop_event, verified_headers, sync_current_height,
                           blocks_queue, last_progress_time, headers_map, headers_in_flight,
                           net>>
       ELSE IF DOMAIN headers_map # {}
       THEN HeadersPass
       ELSE /\ headers_in_flight' = HeaderRequests.in_flight
            /\ net' = HeaderRequests.net
            /\ UNCHANGED <<syncing, mode, stop_event, verified_headers, sync_current_height,
                           blocks_queue, last_progress_time, headers_map, headers_pc>>
    /\ UNCHANGED headersFrame

(* _headers_sync_thread inside the verification loop                       *)
HeadersVerify ==
    /\ headers_pc = "verify"
    /\ HeadersPass
    /\ UNCHANGED headersFrame

(* _blocks_sync_thread waiting for the block download phase                *)
BlocksWait ==
    /\ blocks_pc = "wait"
    /\ IF ~stop_event /\ syncing
       THEN /\ mode = "blocks_sync"
            /\ blocks_pc' = "loop"
       ELSE blocks_pc' = "done"
    /\ UNCHANGED <<nodeVars, p2pVars, syncing, mode, target_height, initial_height,
                   sync_current_height, last_progress_time, headers_in_flight, headers_map,
                   verified_headers, blocks_queue, blocks_in_flight, downloaded_blocks,
                   blocks_processing_queue, blocks_downloaded, stop_event, headers_pc,
                   processing_pc>>

(* one pass of the download loop of _blocks_sync_thread: the lowest queued *)
(* block is requested (_request_block) and put in flight, completion is    *)
(* tested, requests that timed out leave the in-flight set                 *)
BlocksLoop ==
    /\ blocks_pc = "loop"
    /\ IF stop_event \/ ~syncing \/ mode # "blocks_sync"
       THEN /\ blocks_pc' = "done"
            /\ UNCHANGED <<blocks_queue, blocks_in_flight, net, mode, syncing>>
       ELSE LET can == blocks_queue # {} /\ Cardinality(blocks_in_flight) < MAX_BLOCKS_IN_FLIGHT
                item == CHOOSE x \in blocks_queue : \A y \in blocks_queue : x.height <= y.height
                skip == can /\ (item.hash \in downloaded_blocks \/ item.hash \in blocks_in_flight)
                queue1 == IF can THEN blocks_queue \ {item} ELSE blocks_queue
                peer == _select_sync_peer
                in_flight1 == IF can /\ ~skip THEN blocks_in_flight \cup {item.hash}
                              ELSE blocks_in_flight
                complete == /\ queue1 = {}
                            /\ in_flight1 = {}
                            /\ blocks_downloaded = target_height - initial_height
                            /\ Len(blocks_processing_queue) = 0
                expired == now - last_progress_time > BLOCK_TIMEOUT
            IN /\ blocks_queue' = queue1
               /\ net' = IF can /\ ~skip /\ peer # NoPeer
                         THEN net \cup {Msg(peer, "GET_DATA", item.height, item.hash)}
                         ELSE net
               /\ IF skip
                  THEN UNCHANGED <<blocks_in_flight, mode, syncing>>
                  ELSE /\ mode' = IF complete THEN "idle" ELSE mode
                       /\ syncing' = IF complete THEN FALSE ELSE syncing
                       /\ blocks_in_flight' = IF expired THEN {} ELSE in_flight1
               /\ blocks_pc' = "loop"
    /\ UNCHANGED <<nodeVars, peers, active_connections, connections, sync_state, handling, target_height, initial_height,
                   sync_current_height, last_progress_time, headers_in_flight, headers_map,
                   verified_headers, downloaded_blocks, blocks_processing_queue,
                   blocks_downloaded, stop_event, headers_pc, processing_pc>>

(* one turn of _block_processing_thread: the block at the head of the      *)
(* processing queue goes to add_block                                      *)
ProcessingPop ==
    /\ processing_pc = "loop"
    /\ ~stop_event
    /\ Len(blocks_processing_queue) > 0
    /\ blocks_processing_queue' = Tail(blocks_processing_queue)
    /\ AddBlockMain("sync", from_dict(Head(blocks_processing_queue)), PeerHeight)
    /\ IF chain_pc' = "cleanup"
       THEN /\ processing_pc' = "adding"
            /\ UNCHANGED <<blocks_downloaded, last_progress_time>>
       ELSE /\ processing_pc' = "loop"
            /\ blocks_downloaded' = IF last'.ok THEN blocks_downloaded + 1 ELSE blocks_downloaded
            /\ last_progress_time' = IF last'.ok THEN now ELSE last_progress_time
    /\ UNCHANGED <<p2pVars, syncing, mode, target_height, initial_height, sync_current_height,
                   headers_in_flight, headers_map, verified_headers, blocks_queue,
                   blocks_in_flight, downloaded_blocks, stop_event, headers_pc, blocks_pc>>

(* add_block returned True to the processing worker                        *)
ProcessingReturn ==
    /\ processing_pc = "adding"
    /\ AddBlockReturn
    /\ blocks_downloaded' = blocks_downloaded + 1
    /\ last_progress_time' = now
    /\ processing_pc' = "loop"
    /\ UNCHANGED <<p2pVars, syncing, mode, target_height, initial_height, sync_current_height,
                   headers_in_flight, headers_map, verified_headers, blocks_queue,
                   blocks_in_flight, downloaded_blocks, blocks_processing_queue, stop_event,
                   headers_pc, blocks_pc>>

(* the processing worker sees the stop event                               *)
ProcessingExit ==
    /\ processing_pc = "loop"
    /\ stop_event
    /\ processing_pc' = "done"
    /\ UNCHANGED <<nodeVars, p2pVars, syncing, mode, target_height, initial_height,
                   sync_current_height, last_progress_time, headers_in_flight, headers_map,
                   verified_headers, blocks_queue, blocks_in_flight, downloaded_blocks,
                   blocks_processing_queue, blocks_downloaded, stop_event, headers_pc,
                   blocks_pc>>

(* SyncState.handle_headers_message                                        *)
handle_headers_message(headers) ==
    LET fresh == {i \in DOMAIN headers : headers[i].height \notin DOMAIN headers_map}
        heights == {headers[i].height : i \in fresh}
        first(h) == CHOOSE i \in fresh : headers[i].height = h
                                         /\ \A j \in fresh : headers[j].height = h => i <= j
    IN /\ syncing
       /\ mode = "headers_sync"
       /\ Len(headers) > 0
       /\ headers_map' = [h \in DOMAIN headers_map \cup heights |->
                             IF h \in DOMAIN headers_map THEN headers_map[h]
                             ELSE headers[first(h)]]
       /\ headers_in_flight' = headers_in_flight \ heights
       /\ UNCHANGED <<nodeVars, p2pVars, syncing, mode, target_height, initial_height,
                      sync_current_height, last_progress_time, verified_headers, blocks_queue,
                      blocks_in_flight, downloaded_blocks, blocks_processing_queue,
                      blocks_downloaded, stop_event, headers_pc, blocks_pc, processing_pc>>

(* the blocks of a message that are in flight, in the order of the message *)
RECURSIVE Awaited(_, _, _)
Awaited(blocks, i, in_flight) ==
    IF i > Len(blocks) THEN <<>>
    ELSE IF blocks[i].hash \in in_flight
    THEN <<blocks[i]>> \o Awaited(blocks, i + 1, in_flight \ {blocks[i].hash})
    ELSE Awaited(blocks, i + 1, in_flight)

(* SyncState.handle_blocks_message                                         *)
handle_blocks_message(blocks) ==
    LET taken == Awaited(blocks, 1, blocks_in_flight)
        hashes == {taken[i].hash : i \in DOMAIN taken}
    IN /\ syncing
       /\ Len(blocks) > 0
       /\ blocks_in_flight' = blocks_in_flight \ hashes
       /\ downloaded_blocks' = downloaded_blocks \cup hashes
       /\ blocks_processing_queue' = blocks_processing_queue \o taken
       /\ UNCHANGED <<nodeVars, p2pVars, syncing, mode, target_height, initial_height,
                      sync_current_height, last_progress_time, headers_in_flight, headers_map,
                      verified_headers, blocks_queue, blocks_downloaded, stop_event,
                      headers_pc, blocks_pc, processing_pc>>

(* P2PNetwork.start_blockchain_sync: sync_state after the call              *)
start_blockchain_sync(peer_heights, connected, best_height) ==
    LET ahead == {p \in connected \cap DOMAIN peer_heights : peer_heights[p] > best_height + 3}
        sync_peer == CHOOSE p \in ahead : \A q \in ahead : peer_heights[q] <= peer_heights[p]
    IN IF sync_state.syncing \/ ahead = {} THEN sync_state
       ELSE [syncing |-> TRUE, sync_peer |-> sync_peer, sync_height |-> peer_heights[sync_peer]]

BLOCKCHAIN_ID == "qbitcoin-mainnet-v1"

(* a table without the entry of one key                                    *)
Drop(table, key) == [k \in DOMAIN table \ {key} |-> table[k]]

(* P2PNetwork._register_connection: the peer table and the active          *)
(* connections after the call; a peer id not in the table gets a PeerInfo  *)
(* with the defaults (height 0)                                            *)
_register_connection(table, active, p) ==
    [peers |-> IF p \in DOMAIN table THEN table ELSE (p :> 0) @@ table,
     active |-> active \cup {p}]

(* P2PNetwork._handle_handshake on the connection conns[p], with the peer  *)
(* table and the active connections as the caller left them.  A handshake  *)
(* of another chain closes the connection.  The reported height (with the  *)
(* version, user agent and services) is written to the PeerInfo the table  *)
(* already has; an inbound connection is registered after that and gets    *)
(* our handshake.  A node without genesis block asks for block 0, a node   *)
(* more than three blocks behind starts the sync of the network.           *)
_handle_handshake(conns, table, active, p, chain_id, height) ==
    IF chain_id # BLOCKCHAIN_ID
    THEN /\ connections' = Drop(conns, p)
         /\ active_connections' = active \ {p}
         /\ peers' = table
         /\ net' = {m \in net : m.peer # p}
         /\ UNCHANGED sync_state
    ELSE LET inbound == ~conns[p].is_outbound
             updated == IF p \in DOMAIN table THEN [table EXCEPT ![p] = height] ELSE table
             registered == IF inbound THEN _register_connection(updated, active, p)
                           ELSE [peers |-> updated, active |-> active]
             reply == IF inbound THEN {Msg(p, "HANDSHAKE", current_height, 0)} ELSE {}
         IN /\ connections' = conns
            /\ peers' = registered.peers
            /\ active_connections' = registered.active
            /\ IF current_height < 0 /\ height >= 0
               THEN /\ net' = net \cup reply \cup {Msg(p, "GET_BLOCKS", 0, 0)}
                    /\ UNCHANGED sync_state
               ELSE IF height > current_height + 3
               THEN /\ sync_state' = start_blockchain_sync(registered.peers, registered.active,
                                                           current_height)
                    /\ net' = net \cup reply
               ELSE /\ net' = net \cup reply
                    /\ UNCHANGED sync_state

(* connect_to_peer to a peer that answers with its handshake: the outbound *)
(* connection is registered when it is made                                *)
PeerHandshake(p, height) ==
    /\ p \notin active_connections
    /\ LET r == _register_connection(peers, active_connections, p)
       IN _handle_handshake((p :> [is_outbound |-> TRUE]) @@ connections, r.peers, r.active,
                            p, BLOCKCHAIN_ID, height)
    /\ UNCHANGED <<nodeVars, handling, syncVars>>

(* PeerConnection.close and P2PNetwork._unregister_connection: what was on *)
(* the connection is lost                                                  *)
PeerDisconnect(p) ==
    /\ p \in active_connections
    /\ active_connections' = active_connections \ {p}
    /\ connections' = Drop(connections, p)
    /\ net' = {m \in net : m.peer # p}
    /\ UNCHANGED <<nodeVars, peers, sync_state, handling, syncVars>>

(* The synchronizing node: it has its genesis block, a peer serves a       *)
(* longer chain and answers in any order, or not at all.                   *)
SyncClock == Tick(MaxSyncTicks) /\ UNCHANGED <<p2pVars, syncVars>>

Connect == \E p \in Peers : PeerHandshake(p, PeerHeight)

Disconnect == \E p \in Peers : PeerDisconnect(p)

DeliverHeaders ==
    \E h \in 1..PeerHeight :
        /\ active_connections # {}
        /\ handle_headers_message(<<Header(h)>>)

DeliverBlocks ==
    \E h \in 1..PeerHeight :
        /\ active_connections # {}
        /\ handle_blocks_message(<<to_dict(PeerChain(h))>>)

SyncCleanup == AddBlockCleanup /\ UNCHANGED <<p2pVars, syncVars>>

SyncNext ==
    \/ SyncClock /\ Quiet
    \/ Connect /\ Quiet
    \/ Disconnect /\ Quiet
    \/ StartSync /\ Quiet
    \/ StopSync /\ Quiet
    \/ HeadersStart /\ Quiet
    \/ HeadersLoop /\ Quiet
    \/ HeadersVerify /\ Quiet
    \/ BlocksWait /\ Quiet
    \/ BlocksLoop /\ Quiet
    \/ DeliverHeaders /\ Quiet
    \/ DeliverBlocks /\ Quiet
    \/ ProcessingPop /\ Quiet
    \/ SyncCleanup /\ Quiet
    \/ ProcessingReturn /\ Quiet
    \/ ProcessingExit /\ Quiet

(* every worker thread keeps running, the chain lock is given back         *)
SyncFairness ==
    /\ WF_vars(HeadersStart /\ Quiet)
    /\ WF_vars(HeadersLoop /\ Quiet)
    /\ WF_vars(HeadersVerify /\ Quiet)
    /\ WF_vars(BlocksWait /\ Quiet)
    /\ WF_vars(BlocksLoop /\ Quiet)
    /\ WF_vars(ProcessingPop /\ Quiet)
    /\ WF_vars(SyncCleanup /\ Quiet)
    /\ WF_vars(ProcessingReturn /\ Quiet)
    /\ WF_vars(ProcessingExit /\ Quiet)

SyncSpec == Init /\ [][SyncNext]_vars /\ SyncFairness

----------------------------------------------------------------------------
(* The fresh node: bootstrap nodes are configured and no chain is on disk, *)
(* so _initialize_blockchain leaves the height at -1 and the genesis block *)
(* comes from a peer that serves a chain of ServedHeight.                  *)

ServedHeight == 5       \* height of the chain the bootstrap peer serves
MaxNetTicks == 2        \* clock ticks of the fresh node

BootstrapInit ==
    /\ now = Epoch
    /\ block_files = << <<>> >>
    /\ block_index = <<>>
    /\ height_index = <<>>
    /\ current_height = -1
    /\ best_hash = NoHash
    /\ not_found_cache = {}
    /\ accounts = <<>>
    /\ tx_blocks = {}
    /\ last_block = NoBlock
    /\ processed = 0
    /\ mempool = <<>>
    /\ chain_pc = "idle"
    /\ chain_cur = Idle
    /\ miner_pc = "idle"
    /\ miner_tmpl = None
    /\ last = [op |-> "init", ok |-> TRUE, why |-> "init"]
    /\ P2PInit
    /\ SyncStateInit
    /\ PowInit

(* the peer's P2PNetwork._handle_get_blocks: the blocks it has in the      *)
(* range, at most 50, go back in one BLOCKS message                        *)
_handle_get_blocks(m) ==
    LET end_height == Min(Min(m.b, ServedHeight), m.a + 49)
    IN IF m.a > end_height THEN net \ {m}
       ELSE (net \ {m}) \cup {Reply(m.peer, "BLOCKS", m.a, end_height)}

PeerGetBlocks ==
    \E m \in net :
        /\ m.out
        /\ m.type = "GET_BLOCKS"
        /\ net' = _handle_get_blocks(m)
        /\ UNCHANGED <<nodeVars, peers, active_connections, connections, sync_state, handling, syncVars>>

(* the peer's P2PNetwork._handle_get_headers does nothing                  *)
PeerGetHeaders ==
    \E m \in net :
        /\ m.out
        /\ m.type = "GET_HEADERS"
        /\ net' = net \ {m}
        /\ UNCHANGED <<nodeVars, peers, active_connections, connections, sync_state, handling, syncVars>>

(* P2PNetwork._handle_blocks, one turn of its loop over the blocks of the  *)
(* message, up to the return of an add_block that refuses the block        *)
_handle_blocks(m) ==
    LET block == from_dict(to_dict(PeerChain(m.a)))
        rest == IF m.a < m.b THEN {Reply(m.peer, "BLOCKS", m.a + 1, m.b)} ELSE {}
    IN /\ handling = None
       /\ IF ~validate(block, now) \/ has_block(block_index, block.hash)
          THEN /\ net' = (net \ {m}) \cup rest
               /\ UNCHANGED <<nodeVars, handling>>
          ELSE IF block.height > 0 /\ ~has_block(block_index, block.prev_hash)
          THEN /\ net' = (net \ {m}) \cup rest
                           \cup {Msg(m.peer, "GET_BLOCKS", block.height - 1, block.height - 1)}
               /\ UNCHANGED <<nodeVars, handling>>
          ELSE /\ net' = (net \ {m}) \cup rest
               /\ AddBlockMain("p2p", block, ServedHeight + 1)
               /\ handling' = IF chain_pc' = "cleanup" \/ last'.ok THEN block ELSE None
       /\ UNCHANGED <<peers, active_connections, connections, sync_state, syncVars>>

HandleBlocks == \E m \in net : ~m.out /\ m.type = "BLOCKS" /\ _handle_blocks(m)

(* _handle_blocks after add_block returned True: the transactions of the   *)
(* block are processed once more, and after the genesis block the sync of  *)
(* the network is started                                                  *)
HandleBlocksAdded ==
    /\ handling # None
    /\ chain_pc = "idle"
    /\ LET r == process_block(Tables, handling)
       IN /\ accounts' = r.db.accounts
          /\ tx_blocks' = r.db.tx_blocks
          /\ last_block' = r.db.last_block
    /\ sync_state' = IF handling.height = 0 /\ current_height = 0
                     THEN start_blockchain_sync(peers, active_connections, current_height)
                     ELSE sync_state
    /\ handling' = None
    /\ UNCHANGED <<now, chainVars, not_found_cache, processed, mempool, chain_pc, chain_cur,
                   miner_pc, miner_tmpl, last, peers, active_connections, connections, net, syncVars>>

(* P2PNetwork._sync_blockchain: _sync_headers and _sync_blocks do nothing, *)
(* the sync state is reset                                                 *)
_sync_blockchain ==
    /\ sync_state.syncing
    /\ sync_state' = [sync_state EXCEPT !.syncing = FALSE, !.sync_peer = NoPeer]
    /\ UNCHANGED <<nodeVars, peers, active_connections, connections, net, handling, syncVars>>

NetClock == Tick(MaxNetTicks) /\ UNCHANGED <<p2pVars, syncVars>>

Bootstrap == \E p \in Peers : PeerHandshake(p, ServedHeight)

NetCleanup == AddBlockCleanup /\ UNCHANGED <<p2pVars, syncVars>>

NetReturn == AddBlockReturn /\ UNCHANGED <<p2pVars, syncVars>>

NetNext ==
    \/ NetClock /\ Quiet
    \/ Bootstrap /\ Quiet
    \/ PeerGetBlocks /\ Quiet
    \/ PeerGetHeaders /\ Quiet
    \/ HandleBlocks /\ Quiet
    \/ NetCleanup /\ Quiet
    \/ NetReturn /\ Quiet
    \/ HandleBlocksAdded /\ Quiet
    \/ _sync_blockchain /\ Quiet
    \/ StartSync /\ Quiet
    \/ HeadersStart /\ Quiet
    \/ HeadersLoop /\ Quiet

(* messages are handled, threads keep running, the chain lock is given     *)
(* back; Node._sync_blockchain calls start_sync once the peer is there     *)
NetFairness ==
    /\ WF_vars(PeerGetBlocks /\ Quiet)
    /\ WF_vars(PeerGetHeaders /\ Quiet)
    /\ WF_vars(HandleBlocks /\ Quiet)
    /\ WF_vars(NetCleanup /\ Quiet)
    /\ WF_vars(NetReturn /\ Quiet)
    /\ WF_vars(HandleBlocksAdded /\ Quiet)
    /\ WF_vars(_sync_blockchain /\ Quiet)
    /\ WF_vars(StartSync /\ Quiet)
    /\ WF_vars(HeadersStart /\ Quiet)
    /\ WF_vars(HeadersLoop /\ Quiet)

NetSpec == BootstrapInit /\ [][NetNext]_vars /\ NetFairness

----------------------------------------------------------------------------
(* The block store on its own (src/core/chain_manager.py): any sequence of *)
(* store_block calls, with rebuild_index run in between.                   *)

MaxStoreHash == 6       \* the blocks handed to store_block have the hashes 1..MaxStoreHash

(* the blocks handed to store_block: two per height, so heights collide    *)
StoreCandidate(hash) ==
    IF hash = GenesisBlock.hash THEN GenesisBlock
    ELSE Block(hash, hash - 1, hash \div 2, Epoch, INITIAL_DIFFICULTY, TRUE,
               <<create_coinbase("Qminer", calculate_block_reward(hash \div 2), hash \div 2)>>)

(* ChainManager.rebuild_index, the scan of one file from record i on       *)
RECURSIVE ScanFile(_, _, _, _)
ScanFile(ix, file_num, records, i) ==
    IF i > Len(records) THEN ix
    ELSE LET block == deserialize_block(records[i])
         IN ScanFile([index |-> (block.hash :> [file |-> file_num, offset |-> i - 1, size |-> 1])
                                    @@ ix.index,
                      hindex |-> (block.height :> block.hash) @@ ix.hindex],
                     file_num, records, i + 1)

RECURSIVE ScanFiles(_, _, _)
ScanFiles(ix, files, n) ==
    IF n > Len(files) THEN ix
    ELSE ScanFiles(ScanFile(ix, n - 1, files[n], 1), files, n + 1)

(* ChainManager.rebuild_index: both indexes, read back from the files in   *)
(* file order                                                              *)
rebuild_index(files) == ScanFiles([index |-> <<>>, hindex |-> <<>>], files, 1)

storeFrame == <<now, current_height, best_hash, ledgerVars, not_found_cache, processed,
                mempool, chain_pc, chain_cur, miner_pc, miner_tmpl, p2pVars, syncVars,
                connVars, powVars>>

StoreBlock ==
    \E hash \in 1..MaxStoreHash :
        LET block == StoreCandidate(hash)
            st == store_block(block_files, block_index, height_index, block)
        IN /\ block_files' = st.files
           /\ block_index' = st.index
           /\ height_index' = st.hindex
           /\ last' = [op |-> "store_block", ok |-> TRUE,
                       why |-> IF has_block(block_index, hash) THEN "exists" ELSE "stored"]
           /\ UNCHANGED storeFrame

RebuildIndex ==
    LET ix == rebuild_index(block_files)
    IN /\ block_index' = ix.index
       /\ height_index' = ix.hindex
       /\ last' = [op |-> "rebuild_index", ok |-> TRUE, why |-> "rebuilt"]
       /\ UNCHANGED <<block_files, storeFrame>>

StoreNext ==
    \/ StoreBlock
    \/ RebuildIndex

StoreSpec == Init /\ [][StoreNext]_vars

----------------------------------------------------------------------------
(* The ledger under blocks with several spends: a peer hands over blocks   *)
(* whose last transaction cannot be paid.                                  *)

MaxLedgerBlocks == 3    \* blocks handed to the ledger after genesis
MaxLedgerTicks == 2     \* clock ticks

(* a signed spend of more than Qbob can ever hold                          *)
Overdraft ==
    Tx(5, <<Input("Qbob", INITIAL_SUPPLY, NoRef)>>, <<Output("Qtest", INITIAL_SUPPLY)>>, 0,
       "PK_Qbob", "PK_Qbob")

LedgerTransactions(height) ==
    LET cb == create_coinbase("Qminer", calculate_block_reward(height), height)
    IN {<<cb>>, <<cb, UserTx(1)>>, <<cb, UserTx(1), Overdraft>>}

LedgerBlocks ==
    UNION {BlocksOn(parent, LedgerTransactions, Unchanged) : parent \in StoredBlocks}

LedgerClock == Tick(MaxLedgerTicks)

SubmitLedgerBlock == \E block \in LedgerBlocks : AddBlockMain("peer", block, MaxLedgerBlocks)

LedgerNext ==
    \/ LedgerClock /\ NoNetwork
    \/ SubmitLedgerBlock /\ NoNetwork
    \/ AddBlockCleanup /\ NoNetwork
    \/ AddBlockReturn /\ NoNetwork

LedgerSpec == Init /\ [][LedgerNext]_vars

----------------------------------------------------------------------------
(* Proof of work (src/core/consensus/pow.py) and the Block object that is  *)
(* mined and validated (src/core/block.py).  SHA3-256 is an oracle: a      *)
(* digest names the function and the header it was computed from, and its  *)
(* value as an integer is one of HashSpace numbers.                        *)

NonceSpace == 4         \* the nonces are 0..NonceSpace - 1 (2**32 in the code)
HashSpace == 8          \* the digests are 0..HashSpace - 1 as integers (2**256 in the code)
max_target == 3         \* the target at MINIMUM_DIFFICULTY, out of HashSpace
NoRoot == -1            \* "" for merkle_root: none given
TamperedRoot == 7       \* "a" * 64, the root of no transaction list

(* Block.calculate_merkle_root: the root names the transaction hashes in   *)
(* their order; no transactions give "0" * 64                              *)
RECURSIVE calculate_merkle_root(_, _)
calculate_merkle_root(transactions, i) ==
    IF i > Len(transactions) THEN 0
    ELSE transactions[i].hash + 1000 * calculate_merkle_root(transactions, i + 1)

block_header(prev_hash, merkle_root, timestamp, height, difficulty, nonce) ==
    [prev_hash |-> prev_hash, merkle_root |-> merkle_root, timestamp |-> timestamp,
     height |-> height, difficulty |-> difficulty, nonce |-> nonce]

(* "" for a digest: mine() found none                                      *)
NoDigest == [fn |-> "none", header |-> NoHash]

(* Block.calculate_hash: SHA3-256 of the JSON text of the header           *)
calculate_hash(header) == [fn |-> "json", header |-> header]

(* ProofOfWork.compute_block_hash: SHA3-256 of the header fields, one      *)
(* after the other                                                         *)
compute_block_hash(header) == [fn |-> "fields", header |-> header]

(* int(block_hash, 16)                                                     *)
HashInt(block_hash) ==
    (5 * block_hash.header.nonce + block_hash.header.merkle_root
       + block_hash.header.timestamp + block_hash.header.height
       + (IF block_hash.fn = "json" THEN 1 ELSE 0)) % HashSpace

(* ProofOfWork.get_target_from_difficulty: int(max_target / difficulty)    *)
get_target_from_difficulty(difficulty) == (max_target * MINIMUM_DIFFICULTY) \div difficulty

(* a digest equal to the target counts as well                             *)
hash_meets_target_or_equal(block_hash, target) == HashInt(block_hash) <= target

(* ProofOfWork.hash_meets_target                                           *)
hash_meets_target(block_hash, target) == HashInt(block_hash) < target

header_of(block) ==
    block_header(block.prev_hash, block.merkle_root, block.timestamp, block.height,
                 block.difficulty, block.nonce)

(* Block.__init__: the merkle root is computed when none is given, the     *)
(* hash is calculate_hash of the header                                    *)
NewBlock(prev_hash, merkle_root, timestamp, height, nonce, difficulty, transactions) ==
    LET root == IF merkle_root = NoRoot /\ Len(transactions) > 0
                THEN calculate_merkle_root(transactions, 1) ELSE merkle_root
    IN [prev_hash |-> prev_hash, merkle_root |-> root, timestamp |-> timestamp,
        height |-> height, nonce |-> nonce, difficulty |-> difficulty,
        transactions |-> transactions,
        hash |-> calculate_hash(block_header(prev_hash, root, timestamp, height,
                                             difficulty, nonce))]

(* ProofOfWork.__init__ and the entry of mine(start_nonce, max_nonce)      *)
NewSolver(caller, header, difficulty, start_nonce, max_nonce) ==
    [pc |-> "test", caller |-> caller, block_header |-> header, difficulty |-> difficulty,
     stop_mining |-> FALSE, start_nonce |-> start_nonce, max_nonce |-> max_nonce,
     nonce |-> start_nonce, success |-> FALSE, hash |-> NoDigest]

(* ProofOfWork.mine, the test of its loop: "while nonce < max_nonce and    *)
(* not self.stop_mining", and the return of failure when it fails          *)
MineTest ==
    /\ pow_solver.pc = "test"
    /\ pow_solver' = IF pow_solver.nonce < pow_solver.max_nonce /\ ~pow_solver.stop_mining
                     THEN [pow_solver EXCEPT !.pc = "hash"]
                     ELSE [pow_solver EXCEPT !.pc = "done", !.success = FALSE, !.hash = NoDigest]
    /\ UNCHANGED <<nodeVars, p2pVars, syncVars, connVars, mining, mined_block,
                   hashes_after_stop>>

(* ProofOfWork.mine, the body of its loop: one nonce is tried              *)
MineHash ==
    /\ pow_solver.pc = "hash"
    /\ LET header == [pow_solver.block_header EXCEPT !.nonce = pow_solver.nonce]
           block_hash == compute_block_hash(header)
           target == get_target_from_difficulty(pow_solver.difficulty)
       IN pow_solver' = IF hash_meets_target(block_hash, target)
                        THEN [pow_solver EXCEPT !.pc = "done", !.block_header = header,
                                                !.success = TRUE, !.hash = block_hash]
                        ELSE [pow_solver EXCEPT !.pc = "test", !.block_header = header,
                                                !.nonce = @ + 1]
    /\ hashes_after_stop' = IF pow_solver.caller = "miner" /\ ~mining
                            THEN hashes_after_stop + 1 ELSE hashes_after_stop
    /\ UNCHANGED <<nodeVars, p2pVars, syncVars, connVars, mining, mined_block>>

(* ProofOfWork.stop, called by another thread                              *)
SolverStop ==
    /\ pow_solver.pc \in {"test", "hash"}
    /\ ~pow_solver.stop_mining
    /\ pow_solver' = [pow_solver EXCEPT !.stop_mining = TRUE]
    /\ UNCHANGED <<nodeVars, p2pVars, syncVars, connVars, mining, mined_block,
                   hashes_after_stop>>

powFrame == <<now, chainVars, ledgerVars, not_found_cache, processed, mempool, chain_pc,
              chain_cur, miner_pc, miner_tmpl, p2pVars, syncVars, connVars, mining,
              hashes_after_stop>>

(* pow_solver = ProofOfWork(header, difficulty); pow_solver.mine(start,    *)
(* max) on the header of the block                                         *)
MineCall ==
    \E start_nonce \in 0..NonceSpace, max_nonce \in 0..NonceSpace :
        /\ pow_solver.pc = "none"
        /\ pow_solver' = NewSolver("test", header_of(mined_block), mined_block.difficulty,
                                   start_nonce, max_nonce)
        /\ UNCHANGED <<powFrame, mined_block, last>>

MineReturn ==
    /\ pow_solver.pc = "done"
    /\ pow_solver.caller = "test"
    /\ pow_solver' = NoSolver
    /\ last' = [op |-> "mine", ok |-> pow_solver.success, why |-> "returned"]
    /\ UNCHANGED <<powFrame, mined_block>>

(* Block.mine up to its call of pow_solver.mine(start_nonce=self.nonce)    *)
BlockMine ==
    /\ pow_solver.pc = "none"
    /\ LET root == IF mined_block.merkle_root = NoRoot
                   THEN calculate_merkle_root(mined_block.transactions, 1)
                   ELSE mined_block.merkle_root
           block == [mined_block EXCEPT !.merkle_root = root]
       IN /\ mined_block' = block
          /\ pow_solver' = NewSolver("block", header_of(block), block.difficulty,
                                     block.nonce, NonceSpace)
    /\ UNCHANGED <<powFrame, last>>

(* Block.mine after pow_solver.mine returned                               *)
BlockMineReturn ==
    /\ pow_solver.pc = "done"
    /\ pow_solver.caller = "block"
    /\ mined_block' = IF pow_solver.success
                      THEN [mined_block EXCEPT !.nonce = pow_solver.nonce,
                                               !.hash = pow_solver.hash]
                      ELSE mined_block
    /\ pow_solver' = NoSolver
    /\ last' = [op |-> "mine", ok |-> pow_solver.success, why |-> "returned"]
    /\ UNCHANGED powFrame

(* Block.validate on the Block object: the object after the call and the   *)
(* result.  calculate_merkle_root stores the root it computes, and the     *)
(* header that is hashed holds that root.                                  *)
validate_block(block, current_time) ==
    IF \/ block.timestamp > current_time + FUTURE_LIMIT
       \/ block.nonce < 0
       \/ block.nonce >= NonceSpace
       \/ block.difficulty < MINIMUM_DIFFICULTY
    THEN [block |-> block, ok |-> FALSE]
    ELSE LET calculated_root == calculate_merkle_root(block.transactions, 1)
             checked == [block EXCEPT !.merkle_root = calculated_root]
             computed_hash == compute_block_hash(header_of(checked))
             pow == /\ calculated_root = checked.merkle_root
                    /\ hash_meets_target(computed_hash,
                                         get_target_from_difficulty(checked.difficulty))
                    /\ computed_hash = checked.hash
         IN [block |-> checked,
             ok |-> validate(Block(NoHash, checked.prev_hash, checked.height,
                                   checked.timestamp, checked.difficulty, pow,
                                   checked.transactions), current_time)]

ValidateBlock ==
    /\ pow_solver.pc = "none"
    /\ mined_block' = validate_block(mined_block, now).block
    /\ last' = [op |-> "validate", ok |-> validate_block(mined_block, now).ok,
                why |-> "returned"]
    /\ UNCHANGED <<powFrame, pow_solver>>

(* the test writes another nonce into the block                            *)
TamperNonce ==
    \E nonce \in 0..NonceSpace :
        /\ pow_solver.pc = "none"
        /\ nonce # mined_block.nonce
        /\ mined_block' = [mined_block EXCEPT !.nonce = nonce]
        /\ UNCHANGED <<powFrame, pow_solver, last>>

(* the test writes another merkle root into the block                      *)
TamperMerkle ==
    /\ pow_solver.pc = "none"
    /\ mined_block.merkle_root # TamperedRoot
    /\ mined_block' = [mined_block EXCEPT !.merkle_root = TamperedRoot]
    /\ UNCHANGED <<powFrame, pow_solver, last>>

(* the blocks the tests build on the genesis block                         *)
TestBlocks ==
    {NewBlock(GenesisBlock.hash, NoRoot, Epoch, 1, nonce, difficulty, transactions) :
        nonce \in {0, 1},
        difficulty \in {MINIMUM_DIFFICULTY, 2 * MINIMUM_DIFFICULTY},
        transactions \in {<<create_coinbase("Qminer", calculate_block_reward(1), 1)>>,
                          <<create_coinbase("Qminer", calculate_block_reward(1), 1), UserTx(1)>>}}

PowSpecInit ==
    /\ NodeInit
    /\ mining = FALSE
    /\ pow_solver = NoSolver
    /\ mined_block \in TestBlocks
    /\ hashes_after_stop = 0

PowNext ==
    \/ MineCall
    \/ MineTest
    \/ MineHash
    \/ SolverStop
    \/ MineReturn
    \/ BlockMine
    \/ BlockMineReturn
    \/ ValidateBlock
    \/ TamperNonce
    \/ TamperMerkle

(* the thread inside mine() keeps running                                  *)
PowFairness ==
    /\ WF_vars(MineTest)
    /\ WF_vars(MineHash)

PowSpec == PowSpecInit /\ [][PowNext]_vars /\ PowFairness

----------------------------------------------------------------------------
(* The mining node whose miner is stopped and started: the mining thread   *)
(* (BlockMiner._mining_loop) works through the nonces of each candidate    *)
(* while another thread calls stop_mining.                                 *)

MaxStopBlocks == 2      \* blocks handed to the ledger after genesis
MaxStopTicks == 2       \* clock ticks

(* BlockMiner.start_mining has run: the flag is set, the thread is at the  *)
(* top of its loop                                                         *)
StopInit ==
    /\ NodeInit
    /\ mining = TRUE
    /\ pow_solver = NoSolver
    /\ mined_block = None
    /\ hashes_after_stop = 0

minerFrame == <<now, chainVars, ledgerVars, processed, mempool, chain_pc, chain_cur, last,
                p2pVars, syncVars, connVars, mined_block>>

(* _mining_loop: "while self.mining"                                       *)
MinerLoop ==
    /\ miner_pc = "idle"
    /\ miner_pc' = IF mining THEN "create" ELSE "exit"
    /\ UNCHANGED <<minerFrame, not_found_cache, miner_tmpl, mining, pow_solver,
                   hashes_after_stop>>

(* _mine_next_block up to pow_solver.mine(callback): it returns None when  *)
(* the flag is down, else it builds the candidate and its solver           *)
MinerBegin ==
    /\ miner_pc = "create"
    /\ IF ~mining
       THEN /\ miner_pc' = "idle"
            /\ UNCHANGED <<not_found_cache, miner_tmpl, pow_solver>>
       ELSE /\ miner_tmpl' = _mine_next_block
            /\ not_found_cache' = get_next_block_difficulty(not_found_cache).nf
            /\ pow_solver' = NewSolver("miner",
                                block_header(_mine_next_block.prev_hash,
                                    calculate_merkle_root(_mine_next_block.transactions, 1),
                                    _mine_next_block.timestamp, _mine_next_block.height,
                                    _mine_next_block.difficulty, 0),
                                _mine_next_block.difficulty, 0, NonceSpace)
            /\ miner_pc' = "mine"
    /\ UNCHANGED <<minerFrame, mining, hashes_after_stop>>

(* _mine_next_block after mine() returned: "if not success or not          *)
(* self.mining: return None", else the Block is built and returned         *)
MinerCheck ==
    /\ miner_pc = "mine"
    /\ pow_solver.pc = "done"
    /\ pow_solver' = NoSolver
    /\ IF ~pow_solver.success \/ ~mining
       THEN /\ miner_pc' = "idle"
            /\ miner_tmpl' = None
       ELSE /\ miner_pc' = "mined"
            /\ UNCHANGED miner_tmpl
    /\ UNCHANGED <<minerFrame, not_found_cache, mining, hashes_after_stop>>

(* BlockMiner.stop_mining: the flag is cleared; the join gives up after    *)
(* two seconds                                                             *)
StopMining ==
    /\ mining
    /\ mining' = FALSE
    /\ hashes_after_stop' = 0
    /\ UNCHANGED <<minerFrame, not_found_cache, miner_pc, miner_tmpl, pow_solver>>

(* BlockMiner.start_mining once the thread has ended                       *)
StartMining ==
    /\ ~mining
    /\ miner_pc = "exit"
    /\ mining' = TRUE
    /\ miner_pc' = "idle"
    /\ hashes_after_stop' = 0
    /\ UNCHANGED <<minerFrame, not_found_cache, miner_tmpl, pow_solver>>

StopClock == Tick(MaxStopTicks)

StopSubmit == MinerSubmit(MaxStopBlocks)

StopNext ==
    \/ StopClock /\ NoNetwork
    \/ MinerLoop
    \/ MinerBegin
    \/ MineTest
    \/ MineHash
    \/ MinerCheck
    \/ StopSubmit /\ NoNetwork
    \/ AddBlockCleanup /\ NoNetwork
    \/ AddBlockReturn /\ NoNetwork
    \/ MinerVerify /\ NoNetwork
    \/ StopMining
    \/ StartMining

StopSpec == StopInit /\ [][StopNext]_vars

----------------------------------------------------------------------------
(* The connections of the node: hosts call in, the node calls hosts        *)
(* (connect_to_peer, run by the peer maintenance thread and by the API),   *)
(* connections fail, close and break the protocol.  Every host listens on  *)
(* one port, so a peer id stands for its IP.                               *)

Hosts == {"A", "B", "C"}

(* the hosts the node knows the address of and calls                       *)
Dialled == {"C"}

max_peers == 2          \* P2PNetwork.max_peers (config.MAX_PEERS by default)
MaxPeerTicks == 3       \* clock ticks of half a ban
MaxFailures == 4        \* failed connection attempts to one host

ban_duration == 3600
ban_failures == 3

OtherChain == "qbitcoin-testnet-v1"

(* PeerInfo.connection_failures, 0 in a new PeerInfo                       *)
failures_of(table, p) == IF p \in DOMAIN table THEN table[p] ELSE 0

(* P2PNetwork._is_banned: the answer and the ban table after the call, an  *)
(* expired ban is deleted                                                  *)
_is_banned(table, ip, current_time) ==
    IF ip \in DOMAIN table
    THEN IF current_time > table[ip]
         THEN [banned |-> FALSE, table |-> Drop(table, ip)]
         ELSE [banned |-> TRUE, table |-> table]
    ELSE [banned |-> FALSE, table |-> table]

peerFrame == <<chainVars, ledgerVars, not_found_cache, processed, mempool, chain_pc,
               chain_cur, miner_pc, miner_tmpl, sync_state, handling, syncVars, powVars,
               lockVars>>

PeerClock ==
    /\ now < Epoch + MaxPeerTicks * (ban_duration \div 2)
    /\ now' = now + ban_duration \div 2
    /\ UNCHANGED <<peerFrame, last, peers, active_connections, connections, net, connVars>>

(* P2PNetwork._accept_connections, one turn of its loop: a banned IP and a *)
(* connection over the limit are refused; the PeerConnection of an         *)
(* accepted socket is not registered yet                                   *)
_accept_connections(p) ==
    LET b == _is_banned(banned_ips, p, now)
    IN /\ p \notin DOMAIN connections
       /\ p \notin connecting
       /\ banned_ips' = b.table
       /\ connections' = IF b.banned \/ Cardinality(active_connections) >= max_peers
                         THEN connections
                         ELSE (p :> [is_outbound |-> FALSE]) @@ connections
       /\ UNCHANGED <<now, peerFrame, last, peers, active_connections, net, connecting,
                      connection_failures, failed_in_a_row>>

(* the HANDSHAKE message of a peer is processed; a peer that called in     *)
(* sends it once                                                           *)
ReceiveHandshake(p, chain_id, height) ==
    /\ p \in DOMAIN connections
    /\ ~connections[p].is_outbound => p \notin active_connections
    /\ _handle_handshake(connections, peers, active_connections, p, chain_id, height)
    /\ UNCHANGED <<nodeVars, handling, syncVars, connVars, powVars>>

(* P2PNetwork.connect_to_peer up to the end of its locked section: the     *)
(* call goes on to open a socket unless the host is banned or the limit is *)
(* reached (a call for a connected peer returns at once)                   *)
connect_to_peer(p) ==
    LET b == _is_banned(banned_ips, p, now)
    IN /\ p \notin DOMAIN connections
       /\ p \notin connecting
       /\ banned_ips' = b.table
       /\ connecting' = IF b.banned \/ Cardinality(active_connections) >= max_peers
                        THEN connecting ELSE connecting \cup {p}
       /\ UNCHANGED <<now, peerFrame, last, peers, active_connections, connections, net,
                      connection_failures, failed_in_a_row>>

(* connect_to_peer, the socket is connected: PeerConnection.__init__       *)
(* registers the outbound connection, our handshake is sent                *)
ConnectDone(p) ==
    /\ p \in connecting
    /\ connecting' = connecting \ {p}
    /\ LET r == _register_connection(peers, active_connections, p)
       IN /\ peers' = r.peers
          /\ active_connections' = r.active
    /\ connections' = (p :> [is_outbound |-> TRUE]) @@ connections
    /\ net' = net \cup {Msg(p, "HANDSHAKE", current_height, 0)}
    /\ failed_in_a_row' = (p :> 0) @@ failed_in_a_row
    /\ UNCHANGED <<now, peerFrame, last, connection_failures, banned_ips>>

(* P2PNetwork._ban_peer: the ban table, and the connections left after the *)
(* active connections of the host are closed                               *)
_ban_peer(ip, duration) ==
    [banned_ips |-> (ip :> now + duration) @@ banned_ips,
     connections |-> IF ip \in active_connections THEN Drop(connections, ip) ELSE connections,
     active |-> active_connections \ {ip}]

(* connect_to_peer, the socket does not connect:                           *)
(* P2PNetwork._record_connection_failure counts the failure in the         *)
(* PeerInfo, or makes a PeerInfo with one failure                          *)
_record_connection_failure(p) ==
    /\ p \in connecting
    /\ failures_of(connection_failures, p) < MaxFailures
    /\ connecting' = connecting \ {p}
    /\ failed_in_a_row' = (p :> failures_of(failed_in_a_row, p) + 1) @@ failed_in_a_row
    /\ IF p \in DOMAIN peers
       THEN LET n == failures_of(connection_failures, p) + 1
                ban == _ban_peer(p, ban_duration)
            IN /\ connection_failures' = (p :> n) @@ connection_failures
               /\ peers' = peers
               /\ IF n >= ban_failures
                  THEN /\ banned_ips' = ban.banned_ips
                       /\ connections' = ban.connections
                       /\ active_connections' = ban.active
                  ELSE UNCHANGED <<banned_ips, connections, active_connections>>
       ELSE /\ peers' = (p :> 0) @@ peers
            /\ connection_failures' = (p :> 1) @@ connection_failures
            /\ UNCHANGED <<banned_ips, connections, active_connections>>
    /\ UNCHANGED <<now, peerFrame, last, net>>

(* PeerConnection.close: the socket is closed and the connection           *)
(* unregistered                                                            *)
close(p) ==
    /\ connections' = Drop(connections, p)
    /\ active_connections' = active_connections \ {p}
    /\ net' = {m \in net : m.peer # p}

(* the peer hangs up: _receive_loop reads nothing and closes               *)
PeerHangsUp(p) ==
    /\ p \in DOMAIN connections
    /\ close(p)
    /\ UNCHANGED <<now, peerFrame, last, peers, connVars>>

ProtocolErrors == {"frame", "too_large", "json", "unknown_type"}

(* PeerConnection._receive_loop and _process_message on a message that     *)
(* breaks the protocol: a frame that ends early, a length over 10 MiB and  *)
(* a body that is not JSON leave the loop, which closes the connection; a  *)
(* type that is no MessageType is logged                                   *)
ProtocolError(p, error) ==
    /\ p \in DOMAIN connections
    /\ last' = [op |-> "receive", ok |-> FALSE, why |-> error]
    /\ IF error = "unknown_type"
       THEN UNCHANGED <<connections, active_connections, net>>
       ELSE close(p)
    /\ UNCHANGED <<now, peerFrame, peers, connVars>>

PeerNext ==
    \/ PeerClock
    \/ \E p \in Hosts : _accept_connections(p)
    \/ \E p \in Hosts, chain_id \in {BLOCKCHAIN_ID, OtherChain} :
           ReceiveHandshake(p, chain_id, PeerHeight)
    \/ \E p \in Dialled : connect_to_peer(p)
    \/ \E p \in Dialled : ConnectDone(p)
    \/ \E p \in Dialled : _record_connection_failure(p)
    \/ \E p \in Hosts : PeerHangsUp(p)
    \/ \E p \in Hosts, error \in ProtocolErrors : ProtocolError(p, error)

PeerSpec == Init /\ [][PeerNext]_vars

----------------------------------------------------------------------------
(* Relay: peers that called in hand the node transactions and the next     *)
(* block of the chain.                                                     *)

RelayTxIds == {1}       \* the payments the peers send

(* P2PNetwork._handle_transaction on a TRANSACTION message of peer p: a    *)
(* transaction the mempool takes goes to every active connection but p's   *)
_handle_transaction(p, tx) ==
    IF tx.hash \in DOMAIN mempool
    THEN UNCHANGED <<mempool, net>>
    ELSE LET r == add_transaction(mempool, tx)
             peers_to_relay == active_connections \ {p}
         IN /\ mempool' = r.pool
            /\ net' = IF r.ok
                      THEN net \cup {Msg(q, "TRANSACTION", tx.hash, 0) : q \in peers_to_relay}
                      ELSE net

ReceiveTransaction ==
    \E p \in active_connections, n \in RelayTxIds :
        /\ _handle_transaction(p, UserTx(n))
        /\ UNCHANGED <<now, chainVars, ledgerVars, not_found_cache, processed, chain_pc,
                       chain_cur, miner_pc, miner_tmpl, last, peers, active_connections,
                       connections, sync_state, handling, syncVars>>

(* a peer sends the block after our tip in a BLOCKS message                *)
PeerSendsBlock ==
    \E p \in active_connections :
        /\ current_height < PeerHeight
        /\ chain_pc = "idle"
        /\ handling = None
        /\ \A m \in net : m.type # "BLOCKS"
        /\ net' = net \cup {Reply(p, "BLOCKS", current_height + 1, current_height + 1)}
        /\ UNCHANGED <<nodeVars, peers, active_connections, connections, sync_state,
                       handling, syncVars>>

RelayAccept == \E p \in Hosts : _accept_connections(p)

RelayHandshake == \E p \in Hosts : ReceiveHandshake(p, BLOCKCHAIN_ID, PeerHeight)

RelayNext ==
    \/ RelayAccept
    \/ RelayHandshake
    \/ ReceiveTransaction /\ Quiet
    \/ PeerSendsBlock /\ Quiet
    \/ HandleBlocks /\ Quiet
    \/ NetCleanup /\ Quiet
    \/ NetReturn /\ Quiet
    \/ HandleBlocksAdded /\ Quiet

RelaySpec == Init /\ [][RelayNext]_vars

----------------------------------------------------------------------------
(* The node that is told of blocks before it gets them: a peer announces   *)
(* block hashes in INV messages, blocks are handed to add_block.           *)

(* P2PNetwork._handle_inventory for a block: Blockchain.get_block_by_hash  *)
(* (which is _load_block) looks the hash up, an unknown block is asked for *)
_handle_inventory(p, item_hash) ==
    LET r == _load_block(not_found_cache, item_hash)
    IN /\ not_found_cache' = r.nf
       /\ net' = IF r.block = None THEN net \cup {Msg(p, "GET_DATA", item_hash, 0)} ELSE net
       /\ UNCHANGED <<now, chainVars, ledgerVars, processed, mempool, chain_pc, chain_cur,
                      miner_pc, miner_tmpl, last, peers, active_connections, connections,
                      sync_state, handling, syncVars>>

HandleInventory ==
    \E p \in active_connections, item_hash \in DOMAIN block_index \cup {NextHash} :
        chain_pc = "idle" /\ _handle_inventory(p, item_hash)

InvConnect == \E p \in Peers : PeerHandshake(p, 0)

InvNext ==
    \/ Clock /\ NoNetwork
    \/ InvConnect /\ Quiet
    \/ HandleInventory /\ Quiet
    \/ SubmitBlock /\ NoNetwork
    \/ AddBlockCleanup /\ NoNetwork
    \/ AddBlockReturn /\ NoNetwork

InvSpec == Init /\ [][InvNext]_vars

----------------------------------------------------------------------------
(* The node whose mempool is offered transactions of different sizes.      *)

PoolTxIds == {1, 2, 6}

SubmitSized == \E n \in PoolTxIds : AddTransaction(n)

PoolNext ==
    \/ Clock /\ NoNetwork
    \/ SubmitBlock /\ NoNetwork
    \/ AddBlockCleanup /\ NoNetwork
    \/ AddBlockReturn /\ NoNetwork
    \/ SubmitSized /\ NoNetwork

PoolSpec == Init /\ [][PoolNext]_vars

----------------------------------------------------------------------------
(* The node whose mempool holds payments between the parties while blocks  *)
(* with other payments are confirmed.                                      *)

ConfirmTxIds == {1, 7, 8}

ConfirmedTransactions(height) ==
    {<<create_coinbase("Qminer", calculate_block_reward(height), height)>>}
    \cup {<<create_coinbase("Qminer", calculate_block_reward(height), height), UserTx(n)>> :
             n \in {1, 8}}

ConfirmBlocks == UNION {BlocksOn(parent, ConfirmedTransactions, Unchanged) : parent \in StoredBlocks}

SubmitConfirmed == \E block \in ConfirmBlocks : AddBlockMain("peer", block, MaxBlocks)

SubmitPending == \E n \in ConfirmTxIds : AddTransaction(n)

(* the count Mempool.remove_confirmed_transactions returns: the confirmed  *)
(* transactions it removed plus the conflicting ones it removed after them *)
total_removed(pool, block) ==
    LET spends == {i \in DOMAIN block.transactions : Len(block.transactions[i].inputs) > 0}
        tx_hashes_to_remove == {block.transactions[i].hash : i \in spends} \cap DOMAIN pool
        spent_outputs == UNION {SpentOutputs(block.transactions[i]) : i \in spends}
        affected_addresses == UNION {InputAddresses(block.transactions[i]) : i \in spends}
        pool1 == Restrict(pool, DOMAIN pool \ tx_hashes_to_remove)
        conflicting_txs ==
            {h \in DOMAIN pool1 : SpentOutputs(pool1[h]) \cap spent_outputs # {}}
            \cup UNION {address_tx_index(pool1, a) : a \in affected_addresses}
    IN Cardinality(tx_hashes_to_remove) + Cardinality(conflicting_txs)

ConfirmNext ==
    \/ Clock /\ NoNetwork
    \/ SubmitConfirmed /\ NoNetwork
    \/ AddBlockCleanup /\ NoNetwork
    \/ AddBlockReturn /\ NoNetwork
    \/ SubmitPending /\ NoNetwork

ConfirmSpec == Init /\ [][ConfirmNext]_vars

----------------------------------------------------------------------------
(* The worker threads of the synchronizer over several syncs: the chain of *)
(* the peer grows, the peer announces its height again with every          *)
(* handshake.                                                              *)
Announce == \E p \in Peers, height \in 1..PeerHeight : PeerHandshake(p, height)

WorkerNext ==
    \/ SyncClock /\ Quiet
    \/ Announce /\ Quiet
    \/ Disconnect /\ Quiet
    \/ StartSync /\ Quiet
    \/ StopSync /\ Quiet
    \/ HeadersStart /\ Quiet
    \/ HeadersLoop /\ Quiet
    \/ HeadersVerify /\ Quiet
    \/ BlocksWait /\ Quiet
    \/ BlocksLoop /\ Quiet
    \/ DeliverHeaders /\ Quiet
    \/ DeliverBlocks /\ Quiet
    \/ ProcessingPop /\ Quiet
    \/ SyncCleanup /\ Quiet
    \/ ProcessingReturn /\ Quiet
    \/ ProcessingExit /\ Quiet

WorkerSpec == Init /\ [][WorkerNext]_vars

----------------------------------------------------------------------------
(* The locks of the P2P network.  One inbound connection is watched; its   *)
(* processing thread handles the HANDSHAKE messages of the peer, the ping  *)
(* task sends to it, a connect_to_peer call to the host of the peer fails  *)
(* for the third time and bans the host.  A step that takes a lock waits   *)
(* until the lock is free; the network lock is an RLock, its owner takes   *)
(* it again without waiting.  A send on the socket succeeds or fails.      *)
LockPeer == "A"

LockHeights == {0, 1}       \* heights the peer reports in its handshakes

lockFrame == <<nodeVars, sync_state, handling, connections, syncVars, powVars, connecting,
               connection_failures, failed_in_a_row>>

At(t, pc) == thread_pc[t] = pc

Goto(t, pc) == thread_pc' = [thread_pc EXCEPT ![t] = pc]

(* _accept_connections takes the connection of the peer: a new             *)
(* PeerConnection with connected = True and a send_lock of its own, not    *)
(* registered                                                              *)
LockAccept ==
    LET b == _is_banned(banned_ips, LockPeer, now)
    IN /\ ~peer_connected
       /\ \A t \in LockThreads : At(t, "idle")
       /\ lock_owner = Unlocked
       /\ banned_ips' = b.table
       /\ peer_connected' = ~b.banned /\ Cardinality(active_connections) < max_peers
       /\ UNCHANGED <<lockFrame, peers, active_connections, net, lock_owner, send_lock,
                      thread_pc>>

(* _handle_handshake of an inbound connection, up to the call of           *)
(* send_message: the network lock is taken, the PeerInfo is updated, the   *)
(* connection is registered                                                *)
HandshakeLock ==
    \E height \in LockHeights :
        LET updated == IF LockPeer \in DOMAIN peers
                       THEN [peers EXCEPT ![LockPeer] = height] ELSE peers
            registered == _register_connection(updated, active_connections, LockPeer)
        IN /\ At("handler", "idle")
           /\ peer_connected
           /\ lock_owner = Unlocked
           /\ lock_owner' = "handler"
           /\ peers' = registered.peers
           /\ active_connections' = registered.active
           /\ Goto("handler", "check")
           /\ UNCHANGED <<lockFrame, net, banned_ips, send_lock, peer_connected>>

(* send_message tests connected before it takes the send lock; the         *)
(* exception it raises leaves the locked section of the handler            *)
HandshakeCheck ==
    /\ At("handler", "check")
    /\ IF peer_connected
       THEN /\ Goto("handler", "send_lock")
            /\ UNCHANGED lock_owner
       ELSE /\ Goto("handler", "idle")
            /\ lock_owner' = Unlocked
    /\ UNCHANGED <<lockFrame, peers, active_connections, net, banned_ips, send_lock,
                   peer_connected>>

(* "with self.send_lock" in send_message, called by the handler            *)
HandshakeSendLock ==
    /\ At("handler", "send_lock")
    /\ send_lock = Unlocked
    /\ send_lock' = "handler"
    /\ Goto("handler", "sendall")
    /\ UNCHANGED <<lockFrame, peers, active_connections, net, banned_ips, lock_owner,
                   peer_connected>>

(* socket.sendall of our handshake.  A socket error closes the connection  *)
(* (close and _unregister_connection, the network lock is ours already)    *)
(* and is raised again; either way both locks are released on the way out. *)
HandshakeSendall ==
    \E sent \in BOOLEAN :
        /\ At("handler", "sendall")
        /\ IF sent
           THEN /\ net' = net \cup {Msg(LockPeer, "HANDSHAKE", current_height, 0)}
                /\ UNCHANGED <<peer_connected, active_connections>>
           ELSE /\ net' = {m \in net : m.peer # LockPeer}
                /\ peer_connected' = FALSE
                /\ active_connections' = IF peer_connected
                                         THEN active_connections \ {LockPeer}
                                         ELSE active_connections
        /\ send_lock' = Unlocked
        /\ lock_owner' = Unlocked
        /\ Goto("handler", "idle")
        /\ UNCHANGED <<lockFrame, peers, banned_ips>>

(* _ping_peers: the connections are listed under the network lock          *)
PingSnapshot ==
    /\ At("pinger", "idle")
    /\ lock_owner = Unlocked
    /\ LockPeer \in active_connections
    /\ Goto("pinger", "check")
    /\ UNCHANGED <<lockFrame, peers, active_connections, net, banned_ips, lock_owner,
                   send_lock, peer_connected>>

(* send_message of the ping: the test of connected; _ping_peers swallows   *)
(* the exception                                                           *)
PingCheck ==
    /\ At("pinger", "check")
    /\ Goto("pinger", IF peer_connected THEN "send_lock" ELSE "idle")
    /\ UNCHANGED <<lockFrame, peers, active_connections, net, banned_ips, lock_owner,
                   send_lock, peer_connected>>

(* "with self.send_lock" in send_message, called by the ping task          *)
PingSendLock ==
    /\ At("pinger", "send_lock")
    /\ send_lock = Unlocked
    /\ send_lock' = "pinger"
    /\ Goto("pinger", "sendall")
    /\ UNCHANGED <<lockFrame, peers, active_connections, net, banned_ips, lock_owner,
                   peer_connected>>

(* socket.sendall of the ping.  After a socket error the handler of the    *)
(* exception calls close inside "with self.send_lock": connected is        *)
(* cleared, the socket is closed, _unregister_connection is next.          *)
PingSendall ==
    \E sent \in BOOLEAN :
        /\ At("pinger", "sendall")
        /\ IF sent
           THEN /\ net' = net \cup {Msg(LockPeer, "PING", current_height, 0)}
                /\ send_lock' = Unlocked
                /\ Goto("pinger", "idle")
                /\ UNCHANGED peer_connected
           ELSE IF peer_connected
           THEN /\ net' = {m \in net : m.peer # LockPeer}
                /\ peer_connected' = FALSE
                /\ Goto("pinger", "unregister")
                /\ UNCHANGED send_lock
           ELSE /\ send_lock' = Unlocked
                /\ Goto("pinger", "idle")
                /\ UNCHANGED <<net, peer_connected>>
        /\ UNCHANGED <<lockFrame, peers, active_connections, banned_ips, lock_owner>>

(* _unregister_connection at the end of close, called by the ping task     *)
(* with the send lock held; the exception is raised again after it         *)
PingUnregister ==
    /\ At("pinger", "unregister")
    /\ lock_owner = Unlocked
    /\ active_connections' = active_connections \ {LockPeer}
    /\ send_lock' = Unlocked
    /\ Goto("pinger", "idle")
    /\ UNCHANGED <<lockFrame, peers, net, banned_ips, lock_owner, peer_connected>>

(* _record_connection_failure at the third failure and _ban_peer, up to    *)
(* the loop over the active connections: the network lock is taken, the    *)
(* ban is written                                                          *)
BanLock ==
    /\ At("banner", "idle")
    /\ lock_owner = Unlocked
    /\ LockPeer \notin DOMAIN banned_ips
    /\ lock_owner' = "banner"
    /\ banned_ips' = (LockPeer :> now + ban_duration) @@ banned_ips
    /\ Goto("banner", "close")
    /\ UNCHANGED <<lockFrame, peers, active_connections, net, send_lock, peer_connected>>

(* _ban_peer closes the connections of the banned host: close returns at   *)
(* once on a connection that is not connected                              *)
BanClose ==
    /\ At("banner", "close")
    /\ IF LockPeer \in active_connections /\ peer_connected
       THEN /\ peer_connected' = FALSE
            /\ active_connections' = active_connections \ {LockPeer}
            /\ net' = {m \in net : m.peer # LockPeer}
       ELSE UNCHANGED <<peer_connected, active_connections, net>>
    /\ lock_owner' = Unlocked
    /\ Goto("banner", "idle")
    /\ UNCHANGED <<lockFrame, peers, banned_ips, send_lock>>

LockNext ==
    \/ LockAccept
    \/ HandshakeLock
    \/ HandshakeCheck
    \/ HandshakeSendLock
    \/ HandshakeSendall
    \/ PingSnapshot
    \/ PingCheck
    \/ PingSendLock
    \/ PingSendall
    \/ PingUnregister
    \/ BanLock
    \/ BanClose

LockSpec == Init /\ [][LockNext]_vars

----------------------------------------------------------------------------
(* The miner that is started again while the thread of the stopped loop is *)
(* alive: stop_mining returned after its join timed out, the thread is     *)
(* still inside its search.  The thread of the second start_mining is      *)
(* followed to the top of its loop only; miner_pc stays the position of    *)
(* the first thread.                                                       *)

(* BlockMiner.start_mining while the thread of the stopped loop has not    *)
(* ended: the flag is set and a second thread is started                   *)
RestartMining ==
    /\ ~mining
    /\ miner_pc # "exit"
    /\ At("miner", "idle")
    /\ mining' = TRUE
    /\ hashes_after_stop' = 0
    /\ Goto("miner", "loop")
    /\ UNCHANGED <<now, chainVars, ledgerVars, processed, mempool, chain_pc, chain_cur, last,
                   p2pVars, syncVars, mined_block, not_found_cache, miner_pc, miner_tmpl,
                   pow_solver, connecting, connection_failures, banned_ips, failed_in_a_row,
                   lock_owner, send_lock, peer_connected>>

RestartNext ==
    \/ StopClock /\ NoNetwork
    \/ MinerLoop
    \/ MinerBegin
    \/ MineTest
    \/ MineHash
    \/ MinerCheck
    \/ StopSubmit /\ NoNetwork
    \/ AddBlockCleanup /\ NoNetwork
    \/ AddBlockReturn /\ NoNetwork
    \/ MinerVerify /\ NoNetwork
    \/ StopMining
    \/ StartMining
    \/ RestartMining

RestartSpec == StopInit /\ [][RestartNext]_vars

----------------------------------------------------------------------------
(* Properties.                                                             *)

Parent(block) == get_block(block_files, block_index, block.prev_hash)

RECURSIVE AncestorAt(_, _)
AncestorAt(block, height) ==
    IF block.height <= height \/ block = None THEN block
    ELSE AncestorAt(Parent(block), height)

(* the difficulty the retarget rule assigns to a block at a boundary: the  *)
(* window ends at its parent and starts DIFFICULTY_ADJUSTMENT_BLOCKS below *)
RetargetedDifficulty(block) ==
    LET end == Parent(block)
        start == AncestorAt(end, Max(0, end.height - DIFFICULTY_ADJUSTMENT_BLOCKS))
    IN adjust_difficulty(end.difficulty, end.timestamp - start.timestamp,
                         DIFFICULTY_ADJUSTMENT_TIMESPAN, MINIMUM_DIFFICULTY)

(* C1: every block add_block has accepted at a height h > 0 with           *)
(* h % DIFFICULTY_ADJUSTMENT_BLOCKS = 0 carries the retargeted difficulty  *)
(* max(MIN, round(prev * expected / clamp(actual, expected/4, expected*4), *)
(* 8)); after blocks 0..2 at 0.001 with an actual timespan of expected/2,  *)
(* an accepted block 3 has difficulty 0.002.                               *)
C1_RetargetEnforced ==
    \A block \in StoredBlocks :
        (block.height > 0 /\ block.height % DIFFICULTY_ADJUSTMENT_BLOCKS = 0)
            => block.difficulty = RetargetedDifficulty(block)

(* C2: there are no reorgs: every accepted block extended the tip, so the  *)
(* stored blocks occupy each height once, the height index names them all  *)
(* and the tip is the highest of them.                                     *)
C2_NoReorg ==
    /\ \A b1, b2 \in StoredBlocks : b1.height = b2.height => b1.hash = b2.hash
    /\ \A b \in StoredBlocks : get_block_hash_by_height(height_index, b.height) = b.hash
    /\ current_height = Cardinality(StoredBlocks) - 1

(* a step in which add_block handed a block to the ledger, and whether it  *)
(* went on to store the block                                              *)
LedgerStep == processed' = processed + 1

Accepted == LedgerStep /\ chain_pc' = "cleanup"

Refused == LedgerStep /\ chain_pc' = "idle"

(* C3: when process_block fails on a transaction of a block, the ledger is *)
(* as it was before the call: balances, tx_count, pubkey_block, tx_blocks  *)
(* and last_block, the effects of the block's earlier transactions too.    *)
C3_FailedBlockRolledBack == [][Refused => UNCHANGED ledgerVars]_vars

(* Falcon-512 as an oracle: the key an address was derived from            *)
KeyOf(address) ==
    CASE address = "Qtest" -> "PK_Qtest"
      [] address = "Qbob" -> "PK_Qbob"
      [] OTHER -> "PK_Qminer"

(* C4: every transaction with inputs in a block add_block has accepted is  *)
(* signed under its sender's public key.                                   *)
C4_SpendsAreSigned ==
    \A block \in StoredBlocks : \A i \in DOMAIN block.transactions :
        LET tx == block.transactions[i]
        IN Len(tx.inputs) > 0 => tx.signature = KeyOf(tx.inputs[1].address)

(* C5 as stated: a block processed into the ledger changes the sum of all  *)
(* balances by the sum of the outputs of its coinbase transaction.         *)
C5_BlockDeltaIsCoinbase ==
    [][Accepted =>
        get_total_supply(accounts') - get_total_supply(accounts)
            = SumAmounts(chain_cur'.block.transactions[1].outputs, 1)]_vars

(* what the transactions from the i-th on credit less what they debit      *)
RECURSIVE Moved(_, _)
Moved(transactions, i) ==
    IF i > Len(transactions) THEN 0
    ELSE SumAmounts(transactions[i].outputs, 1) - SumAmounts(transactions[i].inputs, 1)
         + Moved(transactions, i + 1)

(* C5: a block processed into the ledger changes the sum of all balances   *)
(* by the outputs of all its transactions less the input amounts of all    *)
(* its transactions: the coinbase outputs less whatever the other          *)
(* transactions debit beyond what they credit.                             *)
C5_BlockDeltaIsOutputsLessInputs ==
    [][Accepted =>
        get_total_supply(accounts') - get_total_supply(accounts)
            = Moved(chain_cur'.block.transactions, 1)]_vars

(* a block with a spend next to its coinbase has been processed and stored *)
C5_Witness ==
    /\ chain_pc = "cleanup"
    /\ Len(chain_cur.block.transactions) > 1
    /\ Len(chain_cur.block.transactions[2].inputs) > 0

(* the sum of all balances after the first n transactions of a block       *)
SupplyAfter(tables, block, n) ==
    get_total_supply(ProcessTxs([live |-> tables, saved |-> tables],
        SubSeq(block.transactions, 1, n), 1, block.height).conn.live.accounts)

(* C6: processing one non-coinbase transaction of an accepted block        *)
(* changes the sum of all balances by exactly -fee.                        *)
C6_TransactionDeltaIsFee ==
    [][Accepted =>
        \A i \in DOMAIN chain_cur'.block.transactions :
            LET tx == chain_cur'.block.transactions[i]
            IN Len(tx.inputs) > 0 =>
                 SupplyAfter(Tables, chain_cur'.block, i)
                     - SupplyAfter(Tables, chain_cur'.block, i - 1) = 0 - tx.fee]_vars

RECURSIVE ScheduledRewards(_)
ScheduledRewards(blocks) ==
    IF blocks = {} THEN 0
    ELSE LET b == CHOOSE x \in blocks : TRUE
         IN (IF b.height > 0 THEN calculate_block_reward(b.height) ELSE 0)
            + ScheduledRewards(blocks \ {b})

(* C7: the sum of all balances is the emitted supply, the genesis          *)
(* allocation plus the scheduled reward of every accepted block, and it    *)
(* never exceeds MAX_SUPPLY.                                               *)
C7_SupplyIsEmitted ==
    /\ get_total_supply(accounts) = INITIAL_SUPPLY + ScheduledRewards(StoredBlocks)
    /\ get_total_supply(accounts) <= MAX_SUPPLY

(* C8: add_block(B) after add_block(B) returned true returns true again    *)
(* and changes nothing: block files, block index, height index, ledger,    *)
(* last_block, current_height and best_hash stay as the first call left    *)
(* them.                                                                   *)
C8_AddBlockTwice ==
    [][\A block \in StoredBlocks :
          AddBlockMain("peer", block, MaxBlocks)
              => /\ last' = [op |-> "add_block", ok |-> TRUE, why |-> "exists"]
                 /\ UNCHANGED <<chainVars, ledgerVars>>]_vars

(* a block beyond genesis was accepted, its add_block returned, and a      *)
(* second add_block of it has returned true                                *)
C8_Witness ==
    /\ Cardinality(StoredBlocks) > 1
    /\ last = [op |-> "add_block", ok |-> TRUE, why |-> "exists"]
    /\ chain_pc = "idle"

(* C9: when add_block(B) returns true, the mempool holds no transaction of *)
(* B and no transaction that spends an output B consumed, whatever         *)
(* add_transaction calls ran next to it.                                   *)
C9_MempoolCleanAtReturn ==
    [][(chain_pc = "return" /\ chain_pc' = "idle") =>
        LET block == chain_cur.block
            spends == {i \in DOMAIN block.transactions : Len(block.transactions[i].inputs) > 0}
        IN /\ \A i \in spends : block.transactions[i].hash \notin DOMAIN mempool'
           /\ \A h \in DOMAIN mempool' : \A i \in spends :
                 SpentOutputs(mempool'[h]) \cap SpentOutputs(block.transactions[i]) = {}]_vars

(* the two spends of ("Qtest", 10)                                         *)
QtestSpends == {1, 2}

(* a step in which add_transaction gets the spend n while the other spend  *)
(* of ("Qtest", 10), m, is in the mempool                                  *)
SecondSpend(n, m) ==
    /\ n # m
    /\ m \in DOMAIN mempool
    /\ n \notin DOMAIN mempool
    /\ AddTransaction(n)

RECURSIVE PendingFrom(_, _)
PendingFrom(hashes, address) ==
    IF hashes = {} THEN 0
    ELSE LET h == CHOOSE x \in hashes : TRUE
             from == {i \in DOMAIN mempool[h].inputs : mempool[h].inputs[i].address = address}
         IN (IF from = {} THEN 0 ELSE SumAmounts(mempool[h].inputs, 1))
            + PendingFrom(hashes \ {h}, address)

C11_DuplicateRejected ==
    [][\A n \in UserTxIds :
          (UserTx(n).hash \in DOMAIN mempool /\ AddTransaction(n))
              => (~last'.ok /\ mempool' = mempool)]_vars

(* what the inputs of the transactions of a pool take from an address     *)
RECURSIVE SpendingInPool(_, _, _)
SpendingInPool(pool, hashes, address) ==
    IF hashes = {} THEN 0
    ELSE LET h == CHOOSE x \in hashes : TRUE
             from == {i \in DOMAIN pool[h].inputs : pool[h].inputs[i].address = address}
         IN (IF from = {} THEN 0 ELSE SumAmounts(pool[h].inputs, 1))
            + SpendingInPool(pool, hashes \ {h}, address)

(* every sender's ledger balance covers what the transactions of the pool  *)
(* take from it                                                            *)
Feasible(pool) ==
    \A a \in Addresses :
        get_balance(a) - SpendingInPool(pool, DOMAIN pool, a) >= 0

C13_FreshNodeCatchesUp ==
    (active_connections # {})
        ~> (current_height = ServedHeight /\ best_hash = PeerChain(ServedHeight).hash)

(* the height of the block of the peer's chain with a given hash           *)
HeightOf(hash) == CHOOSE h \in 0..PeerHeight : PeerChain(h).hash = hash

(* the downloaded blocks the processing worker has taken from its queue    *)
HandedOver ==
    downloaded_blocks \ {blocks_processing_queue[i].hash : i \in DOMAIN blocks_processing_queue}

(* C14: the processing worker hands the downloaded blocks to add_block in   *)
(* strictly increasing height order: the block it takes is above every     *)
(* block it has taken before, whatever order the responses arrived in.     *)
C14_AddBlockInHeightOrder ==
    [][(mode = "blocks_sync" /\ ProcessingPop)
          => \A hash \in HandedOver :
                HeightOf(hash) < Head(blocks_processing_queue).height]_vars

(* the block of a height is neither downloaded nor in flight nor queued    *)
(* for download                                                            *)
Unscheduled(h) ==
    /\ Header(h).hash \notin downloaded_blocks
    /\ Header(h).hash \notin blocks_in_flight
    /\ \A item \in blocks_queue : item.height # h

(* C15: a request that timed out is scheduled again.  While the sync       *)
(* downloads blocks, every block that has not arrived stays in flight or   *)
(* queued for a request; a pass of the headers thread that has a peer to   *)
(* ask leaves every header that has not arrived in flight.                 *)
C15_TimedOutRescheduled ==
    [][/\ (syncing' /\ mode' = "blocks_sync")
             => \A h \in (initial_height' + 1)..target_height' : ~Unscheduled(h)'
       /\ (syncing /\ mode = "headers_sync" /\ _select_sync_peer # NoPeer
              /\ (HeadersLoop \/ HeadersVerify))
             => \A h \in headers_in_flight :
                    (h > sync_current_height' /\ h \notin DOMAIN headers_map')
                        => h \in headers_in_flight']_vars

DeadEnd ==
    /\ syncing
    /\ mode = "blocks_sync"
    /\ blocks_pc = "loop"
    /\ blocks_queue = {}
    /\ blocks_in_flight = {}
    /\ blocks_processing_queue = <<>>
    /\ processing_pc = "loop"
    /\ blocks_downloaded # target_height - initial_height

(* the blocks thread finds the sync complete                               *)
Completes == syncing /\ mode = "blocks_sync" /\ mode' = "idle" /\ ~syncing' /\ ~stop_event'

(* C16: every started sync returns to IDLE, so it never reaches a state    *)
(* from which only stop_sync leads on, and when the blocks thread finds    *)
(* the queue drained, nothing in flight and blocks_downloaded = target -   *)
(* initial, the height of the chain is the target height.                  *)
C16_ReturnsToIdle ==
    [][/\ ~DeadEnd'
       /\ Completes => current_height = target_height]_vars

(* C18: when no peer is connected any more, the next pass of a download    *)
(* thread leaves the sync at IDLE: syncing false, request buffers cleared. *)
C18_DisconnectRestartsAtIdle ==
    [][(syncing /\ active_connections = {} /\ (HeadersLoop \/ BlocksLoop))
          => /\ ~syncing'
             /\ mode' = "idle"
             /\ headers_in_flight' = {}
             /\ blocks_in_flight' = {}
             /\ blocks_queue' = {}]_vars

(* C20: a node without genesis block that processes the handshake of a     *)
(* peer with a chain sends GET_BLOCKS{0, 0} to that peer at once, and      *)
(* until the genesis block is applied it applies no block above height 0   *)
(* and sends no request other than GET_BLOCKS{0, 0}.                       *)
C20_GenesisBeforeAnySync ==
    [][current_height < 0
          => /\ \A p \in Peers :
                    PeerHandshake(p, ServedHeight) => Msg(p, "GET_BLOCKS", 0, 0) \in net'
             /\ \A m \in net' \ net :
                    m.out => (m.type = "GET_BLOCKS" /\ m.a = 0 /\ m.b = 0)
             /\ current_height' <= 0]_vars

(* C27: after any sequence of store_block calls (a hash stored again, two  *)
(* blocks at one height, a rotation to the next file) get_block(h) gives   *)
(* the block with hash h exactly for the hashes of the index, and          *)
(* rebuild_index reads the same hash -> location and height -> hash maps   *)
(* back from the files.                                                    *)
C27_IndexMatchesFiles ==
    /\ \A h \in 1..MaxStoreHash :
          IF h \in DOMAIN block_index
          THEN get_block(block_files, block_index, h).hash = h
          ELSE get_block(block_files, block_index, h) = None
    /\ rebuild_index(block_files) = [index |-> block_index, hindex |-> height_index]

(* rebuild_index has run over two files that hold two blocks of one height *)
C27_Witness ==
    /\ last.op = "rebuild_index"
    /\ Len(block_files) >= 2
    /\ \E b1, b2 \in StoredBlocks : b1.hash # b2.hash /\ b1.height = b2.height

(* the stored blocks in the order add_block accepted them                  *)
RECURSIVE Concat(_, _)
Concat(files, n) == IF n > Len(files) THEN <<>> ELSE files[n] \o Concat(files, n + 1)

AcceptedInOrder ==
    LET records == Concat(block_files, 1)
    IN [i \in DOMAIN records |-> deserialize_block(records[i])]

SignedSpendOf(block, address) ==
    \E i \in DOMAIN block.transactions :
        /\ block.transactions[i].public_key # NoKey
        /\ \E j \in DOMAIN block.transactions[i].inputs :
              block.transactions[i].inputs[j].address = address

(* C28: every address with an outgoing signed transaction in an accepted   *)
(* block has pubkey_block set to the height of the first accepted block    *)
(* that holds one.                                                         *)
C28_PubkeyBlockIsFirstSigned ==
    \A address \in Addresses :
        LET signed == {i \in DOMAIN AcceptedInOrder : SignedSpendOf(AcceptedInOrder[i], address)}
            first == CHOOSE i \in signed : \A k \in signed : i <= k
        IN signed # {} =>
              /\ address \in DOMAIN accounts
              /\ accounts[address].pubkey_block = AcceptedInOrder[first].height

(* the block was mined: its hash is the digest of a header that met the    *)
(* target, and a field of that header has been changed since               *)
Tampered ==
    /\ mined_block.hash.fn = "fields"
    /\ \/ mined_block.nonce # mined_block.hash.header.nonce
       \/ mined_block.merkle_root # mined_block.hash.header.merkle_root

(* C29: validate() returns false on a mined block whose nonce was changed  *)
(* or whose merkle_root was overwritten with a different value.            *)
C29_TamperedBlockInvalid == [][(ValidateBlock /\ Tampered) => ~last'.ok]_vars

(* C30: mine(start_nonce, max_nonce) terminates; it returns success only   *)
(* with a nonce >= start_nonce (and below max_nonce) whose header digest   *)
(* is strictly below the target of the difficulty, and it returns failure  *)
(* only with the stop flag set or the nonce at max_nonce or beyond; a loop *)
(* test that finds the flag set or the nonce at max_nonce returns failure. *)
C30_MineTerminates ==
    /\ [](pow_solver.pc = "done" =>
            IF pow_solver.success
            THEN /\ pow_solver.nonce >= pow_solver.start_nonce
                 /\ pow_solver.nonce < pow_solver.max_nonce
                 /\ pow_solver.hash =
                       compute_block_hash([pow_solver.block_header EXCEPT
                                              !.nonce = pow_solver.nonce])
                 /\ HashInt(pow_solver.hash) < get_target_from_difficulty(pow_solver.difficulty)
            ELSE pow_solver.stop_mining \/ pow_solver.nonce >= pow_solver.max_nonce)
    /\ [][(MineTest /\ (pow_solver.stop_mining \/ pow_solver.nonce >= pow_solver.max_nonce))
             => (pow_solver'.pc = "done" /\ ~pow_solver'.success)]_vars
    /\ ((pow_solver.pc = "test") ~> (pow_solver.pc = "done"))

(* mine() has returned success on a nonce above its start nonce            *)
C30_Witness ==
    /\ pow_solver.pc = "done"
    /\ pow_solver.success
    /\ pow_solver.nonce > pow_solver.start_nonce

(* the nonce attempts a stopped miner may still make ("about 1000" of the  *)
(* 2**32 nonces)                                                           *)
StopAttempts == 2

(* the mining thread hands its block to add_block                          *)
MinerSubmits == miner_pc = "mined" /\ miner_pc' # "mined"

(* C26: once stop_mining has cleared the flag the mining thread makes at   *)
(* most StopAttempts further nonce attempts and hands no further block to  *)
(* add_block.                                                              *)
C26_StopObserved ==
    [][(hashes_after_stop' <= StopAttempts) /\ (MinerSubmits => mining)]_vars


(* C21: a HANDSHAKE on a connection a peer opened either closes the        *)
(* connection without registering it (another chain_id), or stores the     *)
(* reported height under the peer id, known before or not, and sends       *)
(* exactly one handshake of ours.                                          *)
C21_HandshakeOutcome ==
    [][\A p \in Hosts, chain_id \in {BLOCKCHAIN_ID, OtherChain} :
          (/\ ReceiveHandshake(p, chain_id, PeerHeight)
           /\ ~connections[p].is_outbound)
          => IF chain_id # BLOCKCHAIN_ID
             THEN /\ p \notin DOMAIN connections'
                  /\ p \notin active_connections'
             ELSE /\ p \in DOMAIN peers'
                  /\ peers'[p] = PeerHeight
                  /\ net' \ net = {Msg(p, "HANDSHAKE", current_height, 0)}]_vars

(* the block whose handling ends is offered to peer q                      *)
BlockSentTo(q) ==
    \E m \in net' : m.out /\ m.peer = q /\ m.type \in {"BLOCKS", "INV"}
                    /\ m.a = handling.height

(* C22: a transaction or block of a peer that the node accepts is sent to  *)
(* every other active connection and not to the connection it came from.   *)
C22_RelayedToTheOthers ==
    [][/\ \A p \in Hosts, n \in RelayTxIds :
              (/\ p \in active_connections
               /\ UserTx(n).hash \notin DOMAIN mempool
               /\ UserTx(n).hash \in DOMAIN mempool'
               /\ _handle_transaction(p, UserTx(n)))
              => /\ \A q \in active_connections \ {p} :
                        Msg(q, "TRANSACTION", UserTx(n).hash, 0) \in net'
                 /\ Msg(p, "TRANSACTION", UserTx(n).hash, 0) \notin net'
       /\ (HandleBlocksAdded /\ handling # None)
              => \E p \in active_connections :
                     /\ \A q \in active_connections \ {p} : BlockSentTo(q)
                     /\ ~BlockSentTo(p)]_vars

(* P2PNetwork._is_banned(ip) as a question                                 *)
Banned(ip) == _is_banned(banned_ips, ip, now).banned

(* C23: the third failed connect_to_peer call in a row bans the host until *)
(* 3600 s later, a failure that is not the third in a row bans nobody, and *)
(* no connection with a banned host is opened or accepted.                 *)
C23_ThreeInARowBan ==
    [][\A p \in Hosts :
          /\ _record_connection_failure(p)
             => IF failed_in_a_row'[p] >= ban_failures
                THEN /\ p \in DOMAIN banned_ips'
                     /\ banned_ips'[p] = now + ban_duration
                ELSE banned_ips' = banned_ips
          /\ (p \in DOMAIN connections' /\ p \notin DOMAIN connections) => ~Banned(p)]_vars

(* C24: a protocol error closes the connection, which is then no active    *)
(* connection, and bans nobody.                                            *)
C24_ProtocolErrorCloses ==
    [][\A p \in Hosts, error \in ProtocolErrors :
          ProtocolError(p, error)
          => /\ p \notin DOMAIN connections'
             /\ p \notin active_connections'
             /\ banned_ips' = banned_ips]_vars

(* C25: there are never more than max_peers active connections.            *)
C25_AtMostMaxPeers == Cardinality(active_connections) <= max_peers

(* C31: every stored block is found by get_block_by_hash, the tip lookup   *)
(* returns the tip, and no block on a stored parent is refused for a       *)
(* missing parent, whatever was looked up before.                          *)
C31_StoredBlockIsFound ==
    chain_pc = "idle" =>
        /\ \A block_hash \in DOMAIN block_index :
               _load_block(not_found_cache, block_hash).block
                   = get_block(block_files, block_index, block_hash)
        /\ current_height >= 0 =>
               _load_block(not_found_cache, best_hash).block
                   = get_block(block_files, block_index, best_hash)
        /\ \A block \in PeerBlocks :
               (block.height > 0 /\ has_block(block_index, block.prev_hash))
                   => check_block(block).why # "parent"

(* the ledger before any block                                             *)
EmptyTables == [accounts |-> <<>>, tx_blocks |-> {}, last_block |-> NoBlock]

(* the ledger after one application of each block of the chain up to a     *)
(* height, in height order                                                 *)
RECURSIVE AppliedOnce(_)
AppliedOnce(height) ==
    IF height < 0 THEN EmptyTables
    ELSE process_block(AppliedOnce(height - 1),
                       get_block(block_files, block_index,
                                 get_block_hash_by_height(height_index, height))).db

(* C32: when no block is being admitted, the ledger is the result of       *)
(* applying every block of the chain exactly once.                         *)
C32_AppliedExactlyOnce ==
    (chain_pc = "idle" /\ handling = None) => Tables = AppliedOnce(current_height)

(* add_block returns False                                                 *)
AddBlockFalse == SubmitBlock /\ chain_pc' = "idle" /\ ~last'.ok

(* C33: a call of add_block that returns False leaves the ledger, the      *)
(* block files and indexes, the tip and the mempool as they were.          *)
C33_RefusedBlockChangesNothing ==
    [][AddBlockFalse => UNCHANGED <<ledgerVars, chainVars, mempool>>]_vars

(* C34: a call of add_transaction that returns False leaves the mempool as *)
(* it was.                                                                 *)
C34_RejectedLeavesMempool ==
    [][(SubmitSized /\ last'.op = "add_transaction" /\ ~last'.ok)
          => mempool' = mempool]_vars

(* the addresses a block touches: the senders and the recipients of its    *)
(* transactions                                                            *)
Touched(block) ==
    UNION {InputAddresses(block.transactions[i]) \cup OutputAddresses(block.transactions[i]) :
              i \in DOMAIN block.transactions}

(* C35: remove_confirmed_transactions removes only transactions of the     *)
(* block, transactions that spend an output the block spends and           *)
(* transactions with an input of an address the block touches; the others  *)
(* stay as they are, and the count returned is the number removed.         *)
C35_OnlyConfirmedAndConflicting ==
    [][AddBlockCleanup =>
          LET block == chain_cur.block
              removed == DOMAIN mempool \ DOMAIN mempool'
              consumed == UNION {SpentOutputs(block.transactions[i]) :
                                    i \in DOMAIN block.transactions}
          IN /\ \A h \in removed :
                    \/ \E i \in DOMAIN block.transactions : block.transactions[i].hash = h
                    \/ SpentOutputs(mempool[h]) \cap consumed # {}
                    \/ InputAddresses(mempool[h]) \cap Touched(block) # {}
             /\ DOMAIN mempool' \subseteq DOMAIN mempool
             /\ \A h \in DOMAIN mempool' : mempool'[h] = mempool[h]
             /\ total_removed(mempool, block) = Cardinality(removed)]_vars

(* where the block of height h of the running sync is                      *)
Places(h) ==
    {place \in {"queue", "in_flight", "processing", "applied"} :
        \/ place = "queue" /\ \E item \in blocks_queue : item.height = h
        \/ place = "in_flight" /\ PeerChain(h).hash \in blocks_in_flight
        \/ place = "processing"
              /\ \E i \in DOMAIN blocks_processing_queue :
                     blocks_processing_queue[i].height = h
        \/ place = "applied" /\ h <= current_height}

(* C36: while a sync downloads blocks, every height of (initial, target]   *)
(* is accounted for.  After every step that leaves the sync in BLOCKS_SYNC *)
(* the block of each such height is in exactly one of the download queue,  *)
(* the in-flight set, the processing queue and the chain; a block enters   *)
(* the in-flight set only in a step that sends a GET_DATA for it to a      *)
(* connected peer; a block of the peer that was in flight when it arrived  *)
(* is recorded as downloaded and is queued for processing.                 *)
C36_EveryHeightAccountedFor ==
    [][/\ (syncing' /\ mode' = "blocks_sync")
             => \A h \in (initial_height' + 1)..target_height' :
                    Cardinality(Places(h)') = 1
       /\ \A h \in 1..PeerHeight :
             (PeerChain(h).hash \in blocks_in_flight' \ blocks_in_flight)
                 => \E p \in active_connections :
                        Msg(p, "GET_DATA", h, PeerChain(h).hash) \in net' \ net
       /\ \A h \in 1..PeerHeight :
             (DeliverBlocks /\ PeerChain(h).hash \in blocks_in_flight \ blocks_in_flight')
                 => /\ PeerChain(h).hash \in downloaded_blocks'
                    /\ \E i \in DOMAIN blocks_processing_queue' :
                           blocks_processing_queue'[i].height = h]_vars

(* a worker thread that was started and has not left its function          *)
Running(pc) == pc \notin {"none", "done"}

(* C37: at most one worker of each kind runs.  Workers are started by      *)
(* start_sync only, so: start_sync starts its workers only when no sync is *)
(* in progress and no header worker, no download worker and no processing  *)
(* worker of an earlier sync is still running; and when stop_sync returns, *)
(* syncing is false.                                                       *)
C37_OneWorkerOfEachKind ==
    [][/\ StartSync => /\ ~syncing
                       /\ ~Running(headers_pc)
                       /\ ~Running(blocks_pc)
                       /\ ~Running(processing_pc)
       /\ StopSync => ~syncing']_vars

(* the thread is inside a send on, or the close of, the socket of the      *)
(* connection                                                              *)
InSocketIO(t) ==
    \/ t \in {"handler", "pinger"} /\ At(t, "sendall")
    \/ t = "banner" /\ At(t, "close") /\ LockPeer \in active_connections /\ peer_connected

(* C38: the network lock is never held during socket I/O.  No thread that  *)
(* is sending on or closing the socket of a connection holds the lock of   *)
(* the P2P network.                                                        *)
C38_NoSocketIOUnderNetworkLock ==
    \A t \in LockThreads : InSocketIO(t) => lock_owner # t

(* the lock a thread is waiting for, and the thread it waits for           *)
WaitsFor(t) ==
    IF At(t, "send_lock") /\ send_lock # Unlocked THEN send_lock
    ELSE IF At(t, "unregister") /\ lock_owner # Unlocked THEN lock_owner
    ELSE Unlocked

RECURSIVE WaitChain(_, _, _)
WaitChain(from, to, steps) ==
    /\ steps > 0
    /\ WaitsFor(from) # Unlocked
    /\ (WaitsFor(from) = to \/ WaitChain(WaitsFor(from), to, steps - 1))

(* C39: the node never deadlocks on its locks.  In no reachable state is   *)
(* there a cycle of threads each waiting for a lock that the next one      *)
(* holds.                                                                  *)
C39_NoLockCycle ==
    \A t \in LockThreads : ~WaitChain(t, t, Cardinality(LockThreads))

(* C40: at most one mining loop thread is alive, and a stopped loop hands  *)
(* no block to add_block.  A second mining thread is alive only when the   *)
(* first one has ended; the thread whose loop stop_mining has stopped      *)
(* hands no block to add_block, also after start_mining was called again.  *)
C40_OneMiningLoop ==
    [][/\ thread_pc'["miner"] # "idle" => miner_pc' = "exit"
       /\ StopSubmit => (mining /\ thread_pc["miner"] = "idle")]_vars

====
